---- MODULE Spec2Model ----
\* TranscriptionService of whisper_transcriber/transcriber.py: the streaming
\* connection to the engine (connect_websocket, disconnect_websocket and the
\* transport's event handlers) and the reconciliation of the engine's
\* messages into (text, is_final) events for the consumer callback.
\*
\* Strings are sequences of one-character strings. A caller-thread operation
\* is split at its blocking calls (sleep, wait for open); an event handler
\* of the transport runs as one action.
EXTENDS Integers, Sequences, FiniteSets, TLC

\* ------------------------------------------------------------------ bounds

MaxLen == 2          \* longest raw buffer_transcription value
MaxLines == 2        \* longest lines array
MaxMsgSize == 2      \* characters, lines and type of one message, counted together
MaxTime == 5         \* last clock reading, in seconds
MaxTransports == 4   \* WebSocketApp objects created in one run
MaxSessions == 2     \* recording sessions of SpecSessions
MaxSessionMsgSize == 1   \* MsgSize of the messages of SpecSessions
MaxServerTime == 6   \* last clock reading while the server is stopped
MaxAudioThreads == 2 \* threads calling the audio capture
MaxStreams == 3      \* input streams created in one run
MaxHotkeyThreads == 2 \* threads calling the hotkey manager
MaxCombinations == 2  \* hotkey combinations
MaxAppTransports == 3 \* WebSocketApp objects created in one run of the application
MaxHandlers == 2      \* menu and hotkey handlers run after __init__
MaxHotkeyToggles == 1 \* toggles run by the hotkey listener thread beside them
MaxProcesses == 3    \* server processes launched in one run

\* --------------------------------------------------------------- constants

SilenceTimeoutSeconds == 3
WaitTimeoutSeconds == 5
MaxRetries == 3

\* ----------------------------------------------------------------- strings

Chars == {"a", "b", " "}
Whitespace == {" "}

RECURSIVE StringsUpTo(_)
StringsUpTo(n) ==
    IF n = 0 THEN {<<>>}
    ELSE LET shorter == StringsUpTo(n - 1)
         IN  shorter \cup {Append(s, c) : s \in {x \in shorter : Len(x) = n - 1}, c \in Chars}

RawStrings == StringsUpTo(MaxLen)

RECURSIVE LStrip(_)
LStrip(s) == IF s # <<>> /\ Head(s) \in Whitespace THEN LStrip(Tail(s)) ELSE s

RECURSIVE RStrip(_)
RStrip(s) ==
    IF s # <<>> /\ s[Len(s)] \in Whitespace THEN RStrip(SubSeq(s, 1, Len(s) - 1)) ELSE s

\* str.strip(): leading and trailing whitespace removed
Strip(s) == RStrip(LStrip(s))

\* str.startswith(prefix)
StartsWith(s, prefix) ==
    /\ Len(prefix) <= Len(s)
    /\ SubSeq(s, 1, Len(prefix)) = prefix

\* the slice forgotten: the whole string
SliceFromStart(s, n) == s

\* s[n:]
SliceFrom(s, n) == SubSeq(s, n + 1, Len(s))

\* ---------------------------------------------------------------- messages

\* A decoded inbound frame: type, buffer_transcription (absent reads as ""),
\* and lines, whose entries are bare strings or records with a text field.
MsgTypes == {"", "ready_to_stop"}

LineEntries ==
    { [kind |-> "str",  text |-> <<"a">>],
      [kind |-> "dict", text |-> <<" ", "a">>],
      [kind |-> "dict", text |-> <<"b">>],
      [kind |-> "str",  text |-> <<" ">>] }

RECURSIVE LineSeqsUpTo(_)
LineSeqsUpTo(n) ==
    IF n = 0 THEN {<<>>}
    ELSE LET shorter == LineSeqsUpTo(n - 1)
         IN  shorter \cup {Append(s, e) : s \in {x \in shorter : Len(x) = n - 1}, e \in LineEntries}

MsgSize(m) == Len(m.buffer) + Len(m.lines) + (IF m.type = "" THEN 0 ELSE 1)

Messages ==
    { m \in [type : MsgTypes, buffer : RawStrings, lines : LineSeqsUpTo(MaxLines)] :
        MsgSize(m) <= MaxMsgSize }

Event(text, is_final) == [text |-> text, is_final |-> is_final]

\* ----------------------------------------------------------- reconciliation

\* The lazily created tracking attributes of the service. attrs holds the
\* names hasattr() finds; NoTime stands for None (None and 0 are both falsy
\* at transcriber.py:329).
NoTime == 0
TrackingAttrs ==
    {"_sent_texts", "_last_buffer_text", "_last_meaningful_transcription_time",
     "_last_buffer_content"}

NoTracking ==
    [attrs |-> {}, sent_texts |-> {}, last_buffer_text |-> <<>>,
     last_buffer_content |-> <<>>, last_meaningful_time |-> NoTime]

\* transcriber.py:313-322
CreateTracking(r) ==
    [attrs |-> TrackingAttrs,
     sent_texts |-> IF "_sent_texts" \in r.attrs THEN r.sent_texts ELSE {},
     last_buffer_text |->
        IF "_last_buffer_text" \in r.attrs THEN r.last_buffer_text ELSE <<>>,
     last_meaningful_time |->
        IF "_last_meaningful_transcription_time" \in r.attrs
        THEN r.last_meaningful_time ELSE NoTime,
     last_buffer_content |->
        IF "_last_buffer_content" \in r.attrs THEN r.last_buffer_content ELSE <<>>]

\* the timeout compared with >= instead of >
SilenceExpiredAtTimeout(r, current_time) ==
    /\ r.last_meaningful_time # NoTime
    /\ current_time - r.last_meaningful_time >= SilenceTimeoutSeconds

\* transcriber.py:329-339
SilenceExpired(r, current_time) ==
    /\ r.last_meaningful_time # NoTime
    /\ current_time - r.last_meaningful_time > SilenceTimeoutSeconds

\* the reset forgetting _last_buffer_content
SilenceCheckKeepsContent(r, current_time) ==
    IF SilenceExpired(r, current_time)
    THEN [r EXCEPT !.last_buffer_text = <<>>, !.last_meaningful_time = NoTime]
    ELSE r

\* the reset forgetting the lines sent as well
SilenceCheckClearsSent(r, current_time) ==
    IF SilenceExpired(r, current_time)
    THEN [r EXCEPT !.last_buffer_text = <<>>, !.last_buffer_content = <<>>,
                   !.last_meaningful_time = NoTime, !.sent_texts = {}]
    ELSE r

SilenceCheck(r, current_time) ==
    IF SilenceExpired(r, current_time)
    THEN [r EXCEPT !.last_buffer_text = <<>>, !.last_buffer_content = <<>>,
                   !.last_meaningful_time = NoTime]
    ELSE r

\* the repeat test taken for a prefix test
IsRepeatByPrefix(r, buffer_text) == StartsWith(r.last_buffer_content, buffer_text)

\* transcriber.py:345-347
IsRepeat(r, buffer_text) == buffer_text = r.last_buffer_content

\* the extension test without startswith
IsExtensionByLength(r, buffer_text) == Len(buffer_text) > Len(r.last_buffer_text)

\* transcriber.py:350-352
IsExtension(r, buffer_text) ==
    /\ StartsWith(buffer_text, r.last_buffer_text)
    /\ Len(buffer_text) > Len(r.last_buffer_text)

\* the call of the consumer without the try of line 238
HandleTranscriptionUncaught(events, text, is_final, raises) ==
    [events |-> Append(events, Event(text, is_final)), raised |-> raises]

\* transcriber.py:230-241: the consumer is called with the event (events
\* lists these calls in order); raises tells that it raises, which the
\* except clause catches. raised: an exception leaves handle_transcription.
HandleTranscription(events, text, is_final, raises) ==
    [events |-> Append(events, Event(text, is_final)), raised |-> FALSE]

\* the section storing the new value in _last_buffer_text only
BufferSectionStaleContent(r, buffer_text, current_time, raises) ==
    IF buffer_text = <<>>
    THEN [r |-> r, events |-> <<>>, returned |-> FALSE, failed |-> FALSE]
    ELSE IF IsRepeat(r, buffer_text)
    THEN [r |-> r, events |-> <<>>, returned |-> TRUE, failed |-> FALSE]
    ELSE LET new_text == SliceFrom(buffer_text, Len(r.last_buffer_text))
             text == IF IsExtension(r, buffer_text) THEN new_text ELSE buffer_text
             emits ==
                IF IsExtension(r, buffer_text)
                THEN Strip(new_text) # <<>>
                ELSE buffer_text # r.last_buffer_text
             call == HandleTranscription(<<>>, text, FALSE, raises)
         IN  [r |-> [r EXCEPT !.last_meaningful_time =
                                IF emits THEN current_time ELSE @,
                             !.last_buffer_text = buffer_text],
              events |-> IF emits THEN call.events ELSE <<>>,
              returned |-> FALSE,
              failed |-> FALSE]

\* transcriber.py:341-365: the partial-text section. returned tells that the
\* handler returned at line 347, failed that an exception took it to the
\* except clause of line 394.
BufferSection(r, buffer_text, current_time, raises) ==
    IF buffer_text = <<>>
    THEN [r |-> r, events |-> <<>>, returned |-> FALSE, failed |-> FALSE]
    ELSE IF IsRepeat(r, buffer_text)
    THEN [r |-> r, events |-> <<>>, returned |-> TRUE, failed |-> FALSE]
    ELSE LET new_text == SliceFrom(buffer_text, Len(r.last_buffer_text))
             text == IF IsExtension(r, buffer_text) THEN new_text ELSE buffer_text
             emits ==
                IF IsExtension(r, buffer_text)
                THEN Strip(new_text) # <<>>
                ELSE buffer_text # r.last_buffer_text
             call == HandleTranscription(<<>>, text, FALSE, raises)
         IN  IF emits /\ call.raised
             THEN [r |-> r, events |-> call.events, returned |-> FALSE, failed |-> TRUE]
             ELSE [r |-> [r EXCEPT !.last_meaningful_time =
                                     IF emits THEN current_time ELSE @,
                                  !.last_buffer_text = buffer_text,
                                  !.last_buffer_content = buffer_text],
                   events |-> IF emits THEN call.events ELSE <<>>,
                   returned |-> FALSE,
                   failed |-> FALSE]

\* the loop delivering every line that is not blank, sent before or not
LineStepUnchecked(acc, line, current_time, raises) ==
    LET line_text == Strip(line.text)
        call == HandleTranscription(acc.events, line_text, TRUE, raises)
    IN  IF line_text # <<>>
        THEN [r |-> [acc.r EXCEPT !.sent_texts = @ \cup {line_text},
                                  !.last_meaningful_time = current_time],
              events |-> call.events,
              failed |-> FALSE]
        ELSE acc

\* transcriber.py:370-386: the loop over lines; acc is [r, events, failed].
LineStep(acc, line, current_time, raises) ==
    LET line_text == Strip(line.text)
        call == HandleTranscription(acc.events, line_text, TRUE, raises)
        delivered ==
            IF call.raised
            THEN [r |-> acc.r, events |-> call.events, failed |-> TRUE]
            ELSE [r |-> [acc.r EXCEPT !.sent_texts = @ \cup {line_text},
                                      !.last_meaningful_time = current_time],
                  events |-> call.events,
                  failed |-> FALSE]
    IN  IF line.kind = "dict"
        THEN IF line_text # <<>> /\ line_text \notin acc.r.sent_texts
             THEN delivered ELSE acc
        ELSE IF line.kind = "str" /\ Strip(line.text) # <<>>
             THEN IF line_text \notin acc.r.sent_texts THEN delivered ELSE acc
             ELSE acc

RECURSIVE LinesSection(_, _, _, _)
LinesSection(acc, lines, current_time, raises) ==
    IF lines = <<>> \/ acc.failed THEN acc
    ELSE LinesSection(LineStep(acc, Head(lines), current_time, raises), Tail(lines),
                      current_time, raises)

\* the handling with the lines delivered before the buffer
ReconcileLinesFirst(r, msg, current_time, raises) ==
    IF msg.type = "ready_to_stop" THEN [r |-> r, events |-> <<>>]
    ELSE LET r1 == SilenceCheck(CreateTracking(r), current_time)
             part == BufferSection(r1, Strip(msg.buffer), current_time, raises)
             rest == LinesSection([r |-> part.r, events |-> <<>>, failed |-> FALSE],
                                  msg.lines, current_time, raises)
         IN  IF part.returned \/ part.failed
             THEN [r |-> part.r, events |-> part.events]
             ELSE [r |-> rest.r, events |-> rest.events \o part.events]

\* the handling without the early return on ready_to_stop
ReconcileAnyType(r, msg, current_time, raises) ==
    LET r1 == SilenceCheck(CreateTracking(r), current_time)
        part == BufferSection(r1, Strip(msg.buffer), current_time, raises)
        rest == LinesSection([r |-> part.r, events |-> part.events,
                              failed |-> FALSE],
                             msg.lines, current_time, raises)
    IN  IF part.returned \/ part.failed
        THEN [r |-> part.r, events |-> part.events]
        ELSE [r |-> rest.r, events |-> rest.events]

\* transcriber.py:296-395: what _on_message does to the tracking state and
\* which events it hands to the consumer, in order, with a consumer that
\* raises or not.
Reconcile(r, msg, current_time, raises) ==
    IF msg.type = "ready_to_stop" THEN [r |-> r, events |-> <<>>]
    ELSE LET r1 == SilenceCheck(CreateTracking(r), current_time)
             part == BufferSection(r1, Strip(msg.buffer), current_time, raises)
             rest == LinesSection([r |-> part.r, events |-> part.events,
                                   failed |-> FALSE],
                                  msg.lines, current_time, raises)
         IN  IF part.returned \/ part.failed
             THEN [r |-> part.r, events |-> part.events]
             ELSE [r |-> rest.r, events |-> rest.events]

\* -------------------------------------------------------------------- state

VARIABLES
    transcription_callback, \* TRUE once the consumer callback is registered
    websocket_client,       \* NoClient or the id of the current WebSocketApp
    is_connected,
    tracking,               \* the tracking attributes (see NoTracking)
    transports,             \* every WebSocketApp created so far -> its status
    conn,                   \* the connect_websocket call of the caller
    disc,                   \* the disconnect_websocket call of the caller
    now,                    \* time.time(), whole seconds
    rx,                     \* observer: what the last message handled did
    sessionFinals,          \* observer: final texts delivered since the last reset
    prior,                  \* observer: what the sessions before the last reset held
    callback_raises,        \* TRUE once the registered consumer raises when called
    send,                   \* the send_audio_chunk call of the audio producer
    server_process,         \* NoProcess or the id of the Popen object held
    processes,              \* every process launched so far -> its status
    lock,                   \* the holder of self._lock
    start,                  \* the start_server call
    stop,                   \* the stop_server call
    probe,                  \* the is_server_running call
    restart,                \* the restart_server call
    consumer,              \* the application consumer (main.py:201-244)
    audio,                 \* the AudioCapture object and the calls made on it
    hotkey,                \* the HotkeyManager object and the calls made on it
    app                    \* the WhisperTranscriberApp object and the handler it runs

vars ==
    <<transcription_callback, websocket_client, is_connected, tracking, transports,
      conn, disc, now, rx, sessionFinals, prior, callback_raises, send,
      server_process, processes, lock, start, stop, probe, restart, consumer, audio, hotkey, app>>

connVars == <<transcription_callback, websocket_client, is_connected, transports, conn, disc>>
observers == <<rx, sessionFinals, prior>>
serverVars == <<server_process, processes, lock, start, stop>>
\* the calls made on the service from outside
appVars == <<probe, restart, consumer, audio, hotkey, app>>
\* what the connection and reconciliation steps leave alone
restVars == <<callback_raises, send, serverVars, appVars>>

lifeVars ==
    <<transcription_callback, websocket_client, is_connected, tracking, transports,
      conn, disc, now, observers>>

NoClient == 0
TransportIds == 1..MaxTransports

\* "unused": not created yet. "created": its thread is started and has not
\* yet read self.websocket_client. "orphan": created, no thread runs it.
\* "aborting", "dead": torn down without having opened. "closing",
\* "closed": torn down after it had opened.
TransportStatus ==
    {"unused", "created", "orphan", "connecting", "aborting", "dead", "open", "closing",
     "closed"}

HasOpened(t) == transports[t] \in {"open", "closing", "closed"}

Created == Cardinality({t \in TransportIds : transports[t] # "unused"})
NextId == Created + 1

\* pc, the loop variable attempt and the return value of connect_websocket;
\* call, created, waits, backoffs, raised and interrupted observe the call:
\* its parity, the transports it created, the waits and sleeps it began,
\* whether it left through the except clause, and whether
\* disconnect_websocket was entered while it was waiting or backing off.
NoCall == [pc |-> "idle", attempt |-> 0, result |-> FALSE, call |-> 0, created |-> 0,
           waits |-> 0, backoffs |-> 0, raised |-> FALSE, interrupted |-> FALSE]

\* The last message handled since the last disconnect: buffer is its
\* buffer_transcription as received, partials are the is_final=False events
\* it delivered; branch is how its trimmed
\* buffer_transcription stood to the stored buffer on arrival ("empty",
\* "repeat", "extension", "other"; "none" for ready_to_stop; "idle" when no
\* message was handled yet, "malformed" for a frame that is not JSON);
\* silence tells that the silence check cleared the stored buffer, raised
\* that the consumer raised on an event of the message; shown is what the
\* consumer has been handed as partial text since the session began (see
\* Shown).
NoRx == [buffer |-> <<>>, partials |-> <<>>, branch |-> "idle", silence |-> FALSE,
         raised |-> FALSE, shown |-> <<>>]

\* _on_message with the consumer registered
HandleMessage(r, msg, current_time) == Reconcile(r, msg, current_time, callback_raises)

\* pc of send_audio_chunk; wrote, caught and raised observe the call: the
\* frame was written, an exception was caught at line 227, an exception
\* left the call.
NoSend == [pc |-> "idle", wrote |-> FALSE, caught |-> FALSE, raised |-> FALSE]

NoProcess == 0
ProcessIds == 1..MaxProcesses

\* "running": poll() is None. "terminating": running with SIGTERM sent.
ProcessStatus == {"unused", "running", "terminating", "exited"}

\* pc and return value of start_server; the other fields observe the
\* call: its parity, the process it launched, the way it failed
\* ("not_found", "launch" for an exception, "exited" for a process gone at
\* the re-check), whether an exception left it.
NoStart == [pc |-> "idle", call |-> 0, result |-> FALSE, launched |-> NoProcess,
            failure |-> "none", raised |-> FALSE]

\* pc of stop_server; the other fields observe the call: its parity, that
\* terminate() and kill() were called, when wait(timeout=5) was entered,
\* whether an exception left it.
NoStop == [pc |-> "idle", call |-> 0, terminated |-> FALSE, killed |-> FALSE,
           since |-> NoTime, raised |-> FALSE]

\* The consumer of the application: has_attr tells that _inserted_text
\* exists, inserted_text is its value ("" while it does not exist). The
\* other fields observe the last call: its parity, the event it was given,
\* whether it called insert_text, with which text, and whether insert_text
\* returned (done).
NoConsumer ==
    [has_attr |-> FALSE, inserted_text |-> <<>>, call |-> 0,
     event |-> Event(<<>>, FALSE), inserts |-> FALSE, arg |-> <<>>, done |-> FALSE]

\* audio_capture.py:17-30. stream is NoStream or the id of the InputStream
\* held, audio_callback tells whether a callback is held, lock names the
\* thread inside "with self._lock" (0 when free), streams gives every
\* InputStream its status, and calls[t] observes the call thread t makes:
\* its operation, pc, parity, return value and whether opening failed.
NoStream == 0
AudioThreads == 1 .. MaxAudioThreads
StreamIds == 1 .. MaxStreams
NoAudioCall == [op |-> "none", pc |-> "idle", call |-> 0, result |-> FALSE, failed |-> FALSE]
NoAudio ==
    [is_recording |-> FALSE, stream |-> NoStream, audio_callback |-> FALSE,
     lock |-> 0, streams |-> [i \in StreamIds |-> "none"],
     calls |-> [t \in AudioThreads |-> NoAudioCall]]

\* hotkey_manager.py:20-25. hotkeys is the set of registered combinations,
\* listener tells whether a listener object is held, lock names the thread
\* inside "with self._lock" (0 when free; threading.Lock is not reentrant)
\* and calls[t] observes the call thread t makes.
HotkeyThreads == 1 .. MaxHotkeyThreads
Combinations == 1 .. MaxCombinations
NoHotkeyCall == [op |-> "none", pc |-> "idle", call |-> 0, raised |-> FALSE]
NoHotkey ==
    [hotkeys |-> {}, listener |-> FALSE, is_listening |-> FALSE, lock |-> 0,
     calls |-> [t \in HotkeyThreads |-> NoHotkeyCall]]

\* main.py:37-99. pc is "new" before __init__ has run, "idle" between
\* handlers, "quit" and "crashed" at the end, and otherwise the name of the
\* call the running handler op ("init", "start" and "stop" for the two
\* branches of toggle_recording, "quit") is making; mark is the parity of
\* that call's record as the handler got to it. log lists the calls the
\* handler has made, with what they returned (True for a call that returns
\* nothing, False for one that raised), failed tells that some start of a
\* recording has failed and handled counts the handlers run since __init__.
\* hk is the toggle_recording that the hotkey listener thread runs
\* (main.py:172-174), with its own pc, op, mark and count.
AppThread == 1
HotkeyThread == 2
NoToggle == [pc |-> "idle", op |-> "none", mark |-> 0, handled |-> 0]
NoApp ==
    [pc |-> "new", op |-> "none", is_recording |-> FALSE, mark |-> 0,
     log |-> <<>>, failed |-> FALSE, handled |-> 0, hk |-> NoToggle]

\* pc and return value of is_server_running; raised tells that an
\* exception left it.
NoProbe == [pc |-> "idle", call |-> 0, result |-> FALSE, raised |-> FALSE]

\* pc and return value of restart_server; mark is the parity of the call it
\* is about to make, read as it gets there.
NoRestart == [pc |-> "idle", mark |-> 0, result |-> FALSE]

Init ==
    /\ transcription_callback = FALSE
    /\ websocket_client = NoClient
    /\ is_connected = FALSE
    /\ tracking = NoTracking
    /\ transports = [t \in TransportIds |-> "unused"]
    /\ conn = NoCall
    /\ disc = [pc |-> "idle", call |-> 0, stopped |-> NoClient]
    /\ now = 1
    /\ rx = NoRx
    /\ sessionFinals = <<>>
    /\ prior = [finals |-> {}, buffer |-> <<>>]
    /\ callback_raises = FALSE
    /\ send = NoSend
    /\ server_process = NoProcess
    /\ processes = [p \in ProcessIds |-> "unused"]
    /\ lock = "free"
    /\ start = NoStart
    /\ stop = NoStop
    /\ probe = NoProbe
    /\ restart = NoRestart
    /\ consumer = NoConsumer
    /\ audio = NoAudio
    /\ hotkey = NoHotkey
    /\ app = NoApp

\* ---------------------------------------------------------------- the clock

TickTo(limit) ==
    /\ now < limit
    /\ now' = now + 1
    /\ UNCHANGED <<connVars, tracking, observers>>
    /\ UNCHANGED restVars

Tick == TickTo(MaxTime)

\* ------------------------------------------------------ connect_websocket

\* main.py:74
SetCallback ==
    /\ ~transcription_callback
    /\ transcription_callback' = TRUE
    /\ UNCHANGED <<websocket_client, is_connected, tracking, transports, conn, disc,
                   now, observers>>
    /\ UNCHANGED restVars

\* websocket.WebSocketApp(...) and Thread(...).start(), transcriber.py:152-162
\* and 176-188. outcome: "ok", "app_raises" (the constructor raises) or
\* "thread_raises" (the thread cannot be started).
NewTransport(outcome) ==
    /\ outcome \in {"ok", "app_raises", "thread_raises"}
    /\ IF outcome = "app_raises"
       THEN UNCHANGED <<websocket_client, transports>>
       ELSE /\ NextId <= MaxTransports
            /\ websocket_client' = NextId
            /\ transports' =
                 [transports EXCEPT ![NextId] = IF outcome = "ok" THEN "created" ELSE "orphan"]

NewCall == [NoCall EXCEPT !.call = 1 - conn.call]

\* connect_websocket without the callback check of lines 146-148
ConnectBeginUnchecked(outcome) ==
    /\ conn.pc \in {"idle", "returned"}
    /\ Created + MaxRetries <= MaxTransports
    /\ NewTransport(outcome)
    /\ conn' = IF outcome = "ok"
               THEN [NewCall EXCEPT !.pc = "wait", !.created = 1, !.waits = 1]
               ELSE [NewCall EXCEPT !.pc = "returned", !.result = FALSE,
                                   !.raised = TRUE,
                                   !.created = IF outcome = "app_raises" THEN 0 ELSE 1]
    /\ UNCHANGED <<transcription_callback, is_connected, tracking, disc, now, observers>>
    /\ UNCHANGED restVars

\* transcriber.py:146-162 and the entry of the first wait (190-194)
ConnectBegin(outcome) ==
    /\ conn.pc \in {"idle", "returned"}
    /\ IF ~transcription_callback
       THEN /\ conn' = [NewCall EXCEPT !.pc = "returned", !.result = FALSE]
            /\ UNCHANGED <<websocket_client, transports>>
       ELSE /\ Created + MaxRetries <= MaxTransports
            /\ NewTransport(outcome)
            /\ conn' = IF outcome = "ok"
                       THEN [NewCall EXCEPT !.pc = "wait", !.created = 1, !.waits = 1]
                       ELSE [NewCall EXCEPT !.pc = "returned", !.result = FALSE,
                                           !.raised = TRUE,
                                           !.created = IF outcome = "app_raises" THEN 0 ELSE 1]
    /\ UNCHANGED <<transcription_callback, is_connected, tracking, disc, now, observers>>
    /\ UNCHANGED restVars

\* the wait ending in return True whatever is_connected holds
ConnectSucceedUnchecked ==
    /\ conn.pc = "wait"
    /\ conn' = [conn EXCEPT !.pc = "returned", !.result = TRUE]
    /\ UNCHANGED <<transcription_callback, websocket_client, is_connected, tracking,
                   transports, disc, now, observers>>
    /\ UNCHANGED restVars

\* transcriber.py:193-197: the wait ends with is_connected read as True
ConnectSucceed ==
    /\ conn.pc = "wait"
    /\ is_connected
    /\ conn' = [conn EXCEPT !.pc = "returned", !.result = TRUE]
    /\ UNCHANGED <<transcription_callback, websocket_client, is_connected, tracking,
                   transports, disc, now, observers>>
    /\ UNCHANGED restVars

\* the loop running one attempt too many
ConnectTimeoutOffByOne ==
    /\ conn.pc = "wait"
    /\ ~is_connected
    /\ conn' = IF conn.attempt + 1 <= MaxRetries
               THEN [conn EXCEPT !.pc = "backoff", !.attempt = @ + 1, !.backoffs = @ + 1]
               ELSE [conn EXCEPT !.pc = "returned", !.result = FALSE]
    /\ UNCHANGED <<transcription_callback, websocket_client, is_connected, tracking,
                   transports, disc, now, observers>>
    /\ UNCHANGED restVars

\* transcriber.py:193-199: the 2 s wait runs out with is_connected False;
\* the loop goes on to the next attempt or falls through to return False
ConnectTimeout ==
    /\ conn.pc = "wait"
    /\ ~is_connected
    /\ conn' = IF conn.attempt + 1 < MaxRetries
               THEN [conn EXCEPT !.pc = "backoff", !.attempt = @ + 1, !.backoffs = @ + 1]
               ELSE [conn EXCEPT !.pc = "returned", !.result = FALSE]
    /\ UNCHANGED <<transcription_callback, websocket_client, is_connected, tracking,
                   transports, disc, now, observers>>
    /\ UNCHANGED restVars

\* transcriber.py:169-194: after the 0.5 s sleep a new transport and thread
ConnectRetry(outcome) ==
    /\ conn.pc = "backoff"
    /\ NewTransport(outcome)
    /\ conn' = IF outcome = "ok"
               THEN [conn EXCEPT !.pc = "wait", !.created = @ + 1, !.waits = @ + 1]
               ELSE [conn EXCEPT !.pc = "returned", !.result = FALSE, !.raised = TRUE,
                                 !.created = IF outcome = "app_raises" THEN @ ELSE @ + 1]
    /\ UNCHANGED <<transcription_callback, is_connected, tracking, disc, now, observers>>
    /\ UNCHANGED restVars

\* ------------------------------------------------------ the transport side

\* transcriber.py:205-211: the thread started for transport k runs
\* run_forever() on whatever self.websocket_client holds when it gets to run;
\* with None there the call raises and the except clause clears is_connected.
RunWebsocket(k) ==
    /\ transports[k] = "created"
    /\ IF websocket_client = NoClient
       THEN /\ transports' = [transports EXCEPT ![k] = "orphan"]
            /\ is_connected' = FALSE
       ELSE /\ transports' =
                 [t \in TransportIds |->
                    IF t = websocket_client /\ transports[t] \in {"created", "orphan"}
                    THEN "connecting"
                    ELSE IF t = k THEN "orphan" ELSE transports[t]]
            /\ UNCHANGED is_connected
    /\ UNCHANGED <<transcription_callback, websocket_client, tracking, conn, disc, now,
                   observers>>
    /\ UNCHANGED restVars

\* transcriber.py:291-294, _on_open
OnOpen(t) ==
    /\ transports[t] = "connecting"
    /\ transports' = [transports EXCEPT ![t] = "open"]
    /\ is_connected' = TRUE
    /\ UNCHANGED <<transcription_callback, websocket_client, tracking, conn, disc, now,
                   observers>>
    /\ UNCHANGED restVars

\* transcriber.py:397-400, _on_error; the transport then tears down
OnError(t) ==
    /\ transports[t] \in {"connecting", "open"}
    /\ transports' = [transports EXCEPT ![t] = IF @ = "open" THEN "closing" ELSE "aborting"]
    /\ is_connected' = FALSE
    /\ UNCHANGED <<transcription_callback, websocket_client, tracking, conn, disc, now,
                   observers>>
    /\ UNCHANGED restVars

\* transcriber.py:402-405, _on_close: after close(), an error or the
\* engine closing the stream
OnClose(t) ==
    /\ transports[t] \in {"open", "closing", "aborting"}
    /\ transports' = [transports EXCEPT ![t] = IF @ = "aborting" THEN "dead" ELSE "closed"]
    /\ is_connected' = FALSE
    /\ UNCHANGED <<transcription_callback, websocket_client, tracking, conn, disc, now,
                   observers>>
    /\ UNCHANGED restVars

\* --------------------------------------------------- disconnect_websocket

\* the reset forgetting _sent_texts
ResetTrackingKeepsSent(r) ==
    [attrs |-> r.attrs,
     sent_texts |-> r.sent_texts,
     last_buffer_text |->
        IF "_last_buffer_text" \in r.attrs THEN <<>> ELSE r.last_buffer_text,
     last_buffer_content |->
        IF "_last_buffer_content" \in r.attrs THEN <<>> ELSE r.last_buffer_content,
     last_meaningful_time |->
        IF "_last_meaningful_transcription_time" \in r.attrs
        THEN NoTime ELSE r.last_meaningful_time]

\* transcriber.py:281-289
ResetTracking(r) ==
    [attrs |-> r.attrs,
     sent_texts |-> IF "_sent_texts" \in r.attrs THEN {} ELSE r.sent_texts,
     last_buffer_text |->
        IF "_last_buffer_text" \in r.attrs THEN <<>> ELSE r.last_buffer_text,
     last_buffer_content |->
        IF "_last_buffer_content" \in r.attrs THEN <<>> ELSE r.last_buffer_content,
     last_meaningful_time |->
        IF "_last_meaningful_transcription_time" \in r.attrs
        THEN NoTime ELSE r.last_meaningful_time]

Range(s) == {s[i] : i \in 1..Len(s)}

\* transcriber.py:277-289: the finally clause (when a handle existed), the
\* reset and the return
DisconnectEnd(d, hadClient) ==
    /\ IF hadClient
       THEN websocket_client' = NoClient /\ is_connected' = FALSE
       ELSE UNCHANGED <<websocket_client, is_connected>>
    /\ tracking' = ResetTracking(tracking)
    /\ disc' = [d EXCEPT !.pc = "returned", !.stopped = NoClient]
    /\ rx' = NoRx
    /\ sessionFinals' = <<>>
    /\ prior' = [finals |-> prior.finals \cup Range(sessionFinals),
                 buffer |-> tracking.last_buffer_text]
    /\ UNCHANGED <<transcription_callback, now>>

\* The call observed: its parity flips as disconnect_websocket is entered;
\* stopped is the transport on which the call has written the empty frame,
\* from that write to the return.
Entered(d) == [d EXCEPT !.call = 1 - @]

\* The connect_websocket call observed as disconnect_websocket is entered
Interrupted(c) == [c EXCEPT !.interrupted = @ \/ c.pc \in {"wait", "backoff"}]

\* transcriber.py:268-273: with a handle, the empty frame is sent ("ok",
\* which takes an open transport) or the send raises; without one the
\* call goes straight to the reset
DisconnectBegin(outcome) ==
    /\ disc.pc \in {"idle", "returned"}
    /\ outcome \in {"ok", "raises"}
    /\ conn' = Interrupted(conn)
    /\ IF websocket_client = NoClient
       THEN DisconnectEnd(Entered(disc), FALSE) /\ UNCHANGED transports
       ELSE IF outcome = "ok"
            THEN /\ transports[websocket_client] = "open"
                 /\ disc' = [Entered(disc) EXCEPT !.pc = "grace",
                                                   !.stopped = websocket_client]
                 /\ UNCHANGED <<transcription_callback, websocket_client, is_connected,
                                tracking, transports, now, observers>>
            ELSE DisconnectEnd(Entered(disc), TRUE) /\ UNCHANGED transports
    /\ UNCHANGED restVars

\* transcriber.py:273-289: after the 0.1 s sleep self.websocket_client is
\* read again and closed ("ok"), or close() raises (as it does on None);
\* then the finally clause, the reset and the return
DisconnectClose(outcome) ==
    /\ disc.pc = "grace"
    /\ outcome \in {"ok", "raises"}
    /\ DisconnectEnd(disc, TRUE)
    /\ UNCHANGED conn
    /\ transports' =
         IF /\ outcome = "ok"
            /\ websocket_client # NoClient
            /\ transports[websocket_client] \in {"connecting", "open"}
         THEN [transports EXCEPT ![websocket_client] =
                                     IF @ = "open" THEN "closing" ELSE "aborting"]
         ELSE transports
    /\ UNCHANGED restVars

\* --------------------------------------------------------------- _on_message

RECURSIVE FirstSeen(_, _)
FirstSeen(seen, lines) ==
    IF lines = <<>> THEN seen
    ELSE LET text == Strip(Head(lines).text)
         IN  FirstSeen(IF text = <<>> \/ text \in Range(seen) THEN seen
                       ELSE Append(seen, text),
                       Tail(lines))

FinalTexts(events) ==
    LET F[i \in 0..Len(events)] ==
            IF i = 0 THEN <<>>
            ELSE IF events[i].is_final THEN Append(F[i - 1], events[i].text) ELSE F[i - 1]
    IN  F[Len(events)]

Partials(events) ==
    LET P[i \in 0..Len(events)] ==
            IF i = 0 THEN <<>>
            ELSE IF events[i].is_final THEN P[i - 1] ELSE Append(P[i - 1], events[i])
    IN  P[Len(events)]

\* what the consumer holds when it appends each partial text to the ones
\* before it, starting again at an event that carries the whole trimmed
\* buffer (transcriber.py:360-362, and 350-356 when the stored text is empty)
Shown(shown, msg, events) ==
    LET partials == Partials(events)
    IN  IF partials = <<>> THEN shown
        ELSE IF partials[1].text = Strip(msg.buffer) THEN partials[1].text
        ELSE shown \o partials[1].text

Branch(r, msg) ==
    LET r1 == CreateTracking(r)
        buffer_text == Strip(msg.buffer)
    IN  IF msg.type = "ready_to_stop" THEN "none"
        ELSE IF buffer_text = <<>> THEN "empty"
        ELSE IF IsRepeat(r1, buffer_text) THEN "repeat"
        ELSE IF IsExtension(r1, buffer_text) THEN "extension"
        ELSE "other"

\* transcriber.py:296-395 with handle_transcription (230-241): an open
\* transport hands a decoded frame to _on_message
OnMessage(t, msg) ==
    /\ transports[t] = "open"
    /\ msg \in Messages
    /\ \E out \in {HandleMessage(tracking, msg, now)} :
           /\ tracking' = out.r
           /\ rx' = [buffer |-> IF msg.type = "ready_to_stop" THEN <<>> ELSE msg.buffer,
                     partials |-> Partials(out.events),
                     branch |-> Branch(tracking, msg),
                     silence |-> /\ msg.type # "ready_to_stop"
                                 /\ SilenceExpired(CreateTracking(tracking), now),
                     raised |-> callback_raises /\ out.events # <<>>,
                     shown |-> Shown(rx.shown, msg, out.events)]
           /\ sessionFinals' = sessionFinals \o FinalTexts(out.events)
    /\ UNCHANGED <<connVars, now, prior>>
    /\ UNCHANGED restVars

\* the frame taken for a transport error
OnMalformedFrameAsError(t) ==
    /\ transports[t] = "open"
    /\ rx' = [NoRx EXCEPT !.branch = "malformed", !.shown = rx.shown]
    /\ is_connected' = FALSE
    /\ UNCHANGED <<transcription_callback, websocket_client, tracking, transports, conn,
                   disc, now, sessionFinals, prior>>
    /\ UNCHANGED restVars

\* transcriber.py:298-300 and 392-393: json.loads raises on a frame that
\* is not JSON and the except clause logs it
OnMalformedFrame(t) ==
    /\ transports[t] = "open"
    /\ rx' = [NoRx EXCEPT !.branch = "malformed", !.shown = rx.shown]
    /\ UNCHANGED <<connVars, tracking, now, sessionFinals, prior>>
    /\ UNCHANGED restVars

\* transcriber.py:238-241: from here on the consumer raises when it is called
ConsumerBreaks ==
    /\ transcription_callback
    /\ ~callback_raises
    /\ callback_raises' = TRUE
    /\ UNCHANGED <<lifeVars, appVars, send, serverVars>>

\* -------------------------------------------------------- send_audio_chunk

\* transcriber.py:219-221: the connected check
SendBegin ==
    /\ send.pc \in {"idle", "returned"}
    /\ send' = IF ~is_connected \/ websocket_client = NoClient
               THEN [NoSend EXCEPT !.pc = "returned"]
               ELSE [NoSend EXCEPT !.pc = "checked"]
    /\ UNCHANGED <<lifeVars, appVars, callback_raises, serverVars>>

\* the write without the try of line 223
SendWriteUncaught(outcome) ==
    /\ send.pc = "checked"
    /\ outcome \in {"ok", "raises"}
    /\ send' = IF /\ outcome = "ok"
                  /\ websocket_client # NoClient
                  /\ transports[websocket_client] = "open"
               THEN [send EXCEPT !.pc = "returned", !.wrote = TRUE]
               ELSE [send EXCEPT !.pc = "returned", !.raised = TRUE]
    /\ UNCHANGED <<lifeVars, appVars, callback_raises, serverVars>>

\* transcriber.py:223-228: self.websocket_client is read again and the
\* chunk sent as one binary frame ("ok", which takes an open transport); on
\* None, on a transport that is not open and on a write error the send
\* raises and the except clause logs it
SendWrite(outcome) ==
    /\ send.pc = "checked"
    /\ outcome \in {"ok", "raises"}
    /\ send' = IF /\ outcome = "ok"
                  /\ websocket_client # NoClient
                  /\ transports[websocket_client] = "open"
               THEN [send EXCEPT !.pc = "returned", !.wrote = TRUE]
               ELSE [send EXCEPT !.pc = "returned", !.caught = TRUE]
    /\ UNCHANGED <<lifeVars, appVars, callback_raises, serverVars>>

\* ----------------------------------------------------------- the consumer

\* the consumer treating partial events as final ones
HandleEventAsFinal(c, text, is_final, outcome) ==
    LET inserted == IF c.has_attr THEN c.inserted_text ELSE <<>>
        cumulative == StartsWith(text, inserted) /\ Len(text) > Len(inserted)
        new_text == SliceFrom(text, Len(inserted))
        arg == IF cumulative THEN new_text ELSE text
        inserts ==
            /\ Strip(text) # <<>>
            /\ IF cumulative THEN Strip(new_text) # <<>> ELSE text # inserted
    IN  [has_attr |-> TRUE,
         inserted_text |-> IF inserts /\ outcome = "ok" THEN text ELSE inserted,
         call |-> 1 - c.call,
         event |-> Event(text, is_final),
         inserts |-> inserts,
         arg |-> IF inserts THEN arg ELSE <<>>,
         done |-> inserts /\ outcome = "ok"]

\* the consumer remembering the text whether insert_text returned or raised
HandleEventAlwaysRemembers(c, text, is_final, outcome) ==
    LET inserted == IF c.has_attr THEN c.inserted_text ELSE <<>>
        cumulative == StartsWith(text, inserted) /\ Len(text) > Len(inserted)
        new_text == SliceFrom(text, Len(inserted))
        arg == IF cumulative THEN new_text ELSE text
        inserts ==
            /\ Strip(text) # <<>>
            /\ is_final
            /\ IF cumulative THEN Strip(new_text) # <<>> ELSE text # inserted
    IN  [has_attr |-> TRUE,
         inserted_text |-> IF inserts THEN text ELSE inserted,
         call |-> 1 - c.call,
         event |-> Event(text, is_final),
         inserts |-> inserts,
         arg |-> IF inserts THEN arg ELSE <<>>,
         done |-> inserts /\ outcome = "ok"]

\* main.py:201-244: _handle_transcription(text, is_final); outcome tells
\* whether insert_text returns ("ok") or raises, which is caught at 233 and
\* 243
HandleEvent(c, text, is_final, outcome) ==
    LET inserted == IF c.has_attr THEN c.inserted_text ELSE <<>>
        cumulative == StartsWith(text, inserted) /\ Len(text) > Len(inserted)
        new_text == SliceFrom(text, Len(inserted))
        arg == IF cumulative THEN new_text ELSE text
        inserts ==
            /\ Strip(text) # <<>>
            /\ is_final
            /\ IF cumulative THEN Strip(new_text) # <<>> ELSE text # inserted
    IN  [has_attr |-> TRUE,
         inserted_text |-> IF inserts /\ outcome = "ok" THEN text ELSE inserted,
         call |-> 1 - c.call,
         event |-> Event(text, is_final),
         inserts |-> inserts,
         arg |-> IF inserts THEN arg ELSE <<>>,
         done |-> inserts /\ outcome = "ok"]

\* the service hands an event to the consumer
ConsumerHandles(text, is_final, outcome) ==
    /\ outcome \in {"ok", "raises"}
    /\ consumer' = HandleEvent(consumer, text, is_final, outcome)
    /\ UNCHANGED <<lifeVars, callback_raises, send, serverVars, probe, restart, audio, hotkey, app>>

\* ------------------------------------------------------- the audio capture

NewStreams(a) == {i \in StreamIds : a.streams[i] = "none"}
NextStream(a) == CHOOSE i \in NewStreams(a) : \A j \in NewStreams(a) : i <= j

AudioFrame == UNCHANGED <<lifeVars, callback_raises, send, serverVars, probe, restart, consumer, hotkey, app>>

\* audio_capture.py:66-72: thread t enters start_recording, takes the lock
\* and either returns False at once because a recording runs or stores the
\* callback and goes on to open a stream
AudioStartBegin(t) ==
    /\ audio.calls[t].pc \in {"idle", "returned"}
    /\ audio.lock = 0
    /\ NewStreams(audio) # {}
    /\ audio' =
          LET c == [NoAudioCall EXCEPT !.op = "start", !.call = 1 - audio.calls[t].call]
          IN  IF audio.is_recording
              THEN [audio EXCEPT !.calls[t] = [c EXCEPT !.pc = "returned"]]
              ELSE [audio EXCEPT !.calls[t] = [c EXCEPT !.pc = "opening"],
                                 !.lock = t, !.audio_callback = TRUE]
    /\ AudioFrame

\* a failed start that keeps the stream it created
AudioStartOpenKeepsStream(t, outcome) ==
    /\ audio.calls[t].pc = "opening"
    /\ audio.calls[t].op = "start"
    /\ outcome \in {"ok", "create_raises", "start_raises"}
    /\ audio' =
          LET id == NextStream(audio)
          IN  CASE outcome = "ok" ->
                     [audio EXCEPT !.stream = id, !.streams[id] = "open",
                                   !.is_recording = TRUE, !.lock = 0,
                                   !.calls[t].pc = "returned",
                                   !.calls[t].result = TRUE]
                [] outcome = "start_raises" ->
                     [audio EXCEPT !.stream = id, !.streams[id] = "open",
                                   !.lock = 0,
                                   !.calls[t].pc = "returned",
                                   !.calls[t].failed = TRUE]
                [] outcome = "create_raises" ->
                     [audio EXCEPT !.stream = NoStream, !.audio_callback = FALSE,
                                   !.lock = 0,
                                   !.calls[t].pc = "returned",
                                   !.calls[t].failed = TRUE]
    /\ AudioFrame

\* audio_capture.py:73-90: the stream is created (73) and started (81);
\* when both return is_recording is set and True returned; when either
\* raises the handler at 86-90 clears stream and callback and returns
\* False, leaving a stream that was created open
AudioStartOpen(t, outcome) ==
    /\ audio.calls[t].pc = "opening"
    /\ audio.calls[t].op = "start"
    /\ outcome \in {"ok", "create_raises", "start_raises"}
    /\ audio' =
          LET id == NextStream(audio)
          IN  CASE outcome = "ok" ->
                     [audio EXCEPT !.stream = id, !.streams[id] = "open",
                                   !.is_recording = TRUE, !.lock = 0,
                                   !.calls[t].pc = "returned",
                                   !.calls[t].result = TRUE]
                [] outcome = "start_raises" ->
                     [audio EXCEPT !.stream = NoStream, !.streams[id] = "open",
                                   !.audio_callback = FALSE, !.lock = 0,
                                   !.calls[t].pc = "returned",
                                   !.calls[t].failed = TRUE]
                [] outcome = "create_raises" ->
                     [audio EXCEPT !.stream = NoStream, !.audio_callback = FALSE,
                                   !.lock = 0,
                                   !.calls[t].pc = "returned",
                                   !.calls[t].failed = TRUE]
    /\ AudioFrame

\* audio_capture.py:94-98: thread t enters stop_recording, takes the lock
\* and either returns at once because nothing records or clears
\* is_recording and goes on to close the stream
AudioStopBegin(t) ==
    /\ audio.calls[t].pc \in {"idle", "returned"}
    /\ audio.lock = 0
    /\ audio' =
          LET c == [NoAudioCall EXCEPT !.op = "stop", !.call = 1 - audio.calls[t].call]
          IN  IF ~audio.is_recording
              THEN [audio EXCEPT !.calls[t] = [c EXCEPT !.pc = "returned"]]
              ELSE [audio EXCEPT !.calls[t] = [c EXCEPT !.pc = "closing"],
                                 !.lock = t, !.is_recording = FALSE]
    /\ AudioFrame

\* audio_capture.py:100-110: a stream held is stopped and closed, or left
\* open when stop() or close() raises; stream and callback are cleared
AudioStopClose(t, outcome) ==
    /\ audio.calls[t].pc = "closing"
    /\ audio.calls[t].op = "stop"
    /\ outcome \in {"ok", "raises"}
    /\ audio' =
          LET held == audio.stream
              closed == IF held # NoStream /\ outcome = "ok"
                        THEN [audio.streams EXCEPT ![held] = "closed"]
                        ELSE audio.streams
          IN  [audio EXCEPT !.streams = closed, !.stream = NoStream,
                            !.audio_callback = FALSE, !.lock = 0,
                            !.calls[t].pc = "returned"]
    /\ AudioFrame

\* ------------------------------------------------------ the hotkey manager

HotkeyFrame ==
    UNCHANGED <<lifeVars, callback_raises, send, serverVars, probe, restart, consumer, audio, app>>

HotkeyCall(t, op) == [NoHotkeyCall EXCEPT !.op = op, !.call = 1 - hotkey.calls[t].call]

\* hotkey_manager.py:27-50: register_hotkey(combination) under the lock;
\* a combination already registered raises HotkeyError; with the listener
\* running _restart_listener (104-128) replaces it, and when the new
\* listener fails to start the exception leaves the call with the listener
\* held and _is_listening False
RegisterHotkey(t, combination, outcome) ==
    /\ hotkey.calls[t].pc \in {"idle", "returned"}
    /\ hotkey.lock = 0
    /\ outcome \in {"ok", "raises"}
    /\ outcome = "raises" => (hotkey.is_listening /\ combination \notin hotkey.hotkeys)
    /\ hotkey' =
          LET c == [HotkeyCall(t, "register") EXCEPT !.pc = "returned"]
          IN  IF combination \in hotkey.hotkeys
              THEN [hotkey EXCEPT !.calls[t] = [c EXCEPT !.raised = TRUE]]
              ELSE IF ~hotkey.is_listening
              THEN [hotkey EXCEPT !.hotkeys = @ \cup {combination}, !.calls[t] = c]
              ELSE [hotkey EXCEPT !.hotkeys = @ \cup {combination},
                                  !.listener = TRUE,
                                  !.is_listening = (outcome = "ok"),
                                  !.calls[t] = [c EXCEPT !.raised = (outcome = "raises")]]
    /\ HotkeyFrame

\* hotkey_manager.py:67-89: start_listening under the lock: nothing when
\* the listener runs or no hotkey is registered; else a listener is
\* created and started
StartListening(t, outcome) ==
    /\ hotkey.calls[t].pc \in {"idle", "returned"}
    /\ hotkey.lock = 0
    /\ outcome \in {"ok", "raises"}
    /\ outcome = "raises" => (~hotkey.is_listening /\ hotkey.hotkeys # {})
    /\ hotkey' =
          LET c == [HotkeyCall(t, "start") EXCEPT !.pc = "returned"]
          IN  IF hotkey.is_listening \/ hotkey.hotkeys = {}
              THEN [hotkey EXCEPT !.calls[t] = c]
              ELSE [hotkey EXCEPT !.listener = TRUE,
                                  !.is_listening = (outcome = "ok"),
                                  !.calls[t] = [c EXCEPT !.raised = (outcome = "raises")]]
    /\ HotkeyFrame

\* hotkey_manager.py:91-102: stop_listening, called by thread t from
\* outside or from clear_all_hotkeys (pc "stopping", line 232): it waits
\* for the lock (93), does nothing when no listener runs, else stops and
\* drops the listener; listener.stop() raising leaves everything as it
\* was. Returning to clear_all_hotkeys ends that call's "with" block too.
StopListening(t, outcome) ==
    /\ hotkey.calls[t].pc \in {"idle", "returned", "stopping"}
    /\ hotkey.lock = 0
    /\ outcome \in {"ok", "raises"}
    /\ outcome = "raises" => (hotkey.is_listening /\ hotkey.listener)
    /\ hotkey' =
          LET nested == hotkey.calls[t].pc = "stopping"
              c == IF nested
                   THEN [hotkey.calls[t] EXCEPT !.pc = "returned"]
                   ELSE [HotkeyCall(t, "stop") EXCEPT !.pc = "returned"]
          IN  IF ~hotkey.is_listening
              THEN [hotkey EXCEPT !.lock = 0, !.calls[t] = c]
              ELSE IF outcome = "raises"
              THEN [hotkey EXCEPT !.lock = 0, !.calls[t] = [c EXCEPT !.raised = TRUE]]
              ELSE [hotkey EXCEPT !.listener = FALSE, !.is_listening = FALSE,
                                  !.lock = 0, !.calls[t] = c]
    /\ HotkeyFrame

\* hotkey_manager.py:224-232: clear_all_hotkeys takes the lock, empties
\* the registrations and, when the listener runs, calls stop_listening
\* while still holding the lock; otherwise it returns
ClearAllHotkeys(t) ==
    /\ hotkey.calls[t].pc \in {"idle", "returned"}
    /\ hotkey.lock = 0
    /\ hotkey' =
          LET c == HotkeyCall(t, "clear")
          IN  IF hotkey.is_listening
              THEN [hotkey EXCEPT !.hotkeys = {}, !.lock = t,
                                  !.calls[t] = [c EXCEPT !.pc = "stopping"]]
              ELSE [hotkey EXCEPT !.hotkeys = {},
                                  !.calls[t] = [c EXCEPT !.pc = "returned"]]
    /\ HotkeyFrame

\* ------------------------------------------------------------- the server

\* Popen.poll() is None
Alive(p) == processes[p] \in {"running", "terminating"}

\* transcriber.py:407-413
IsServerRunning == server_process # NoProcess /\ Alive(server_process)

\* the server process ends, by itself or on SIGTERM
ProcessExits(p) ==
    /\ Alive(p)
    /\ processes' = [processes EXCEPT ![p] = "exited"]
    /\ UNCHANGED <<lifeVars, appVars, callback_raises, send, server_process, lock, start, stop>>

\* the process ids not handed out yet
Unused == {p \in ProcessIds : processes[p] = "unused"}

StartCall == [NoStart EXCEPT !.call = 1 - start.call]

\* any handle taken for a running server
StartBeginNoProbe(outcome) ==
    /\ lock = "free"
    /\ start.pc \in {"idle", "returned"}
    /\ outcome \in {"ok", "not_found", "raises"}
    /\ IF server_process # NoProcess
       THEN /\ start' = [StartCall EXCEPT !.pc = "returned", !.result = TRUE]
            /\ UNCHANGED <<server_process, processes, lock>>
       ELSE /\ outcome = "ok"
            /\ Unused # {}
            /\ LET p == CHOOSE q \in Unused : \A u \in Unused : q <= u
               IN  /\ server_process' = p
                   /\ processes' = [processes EXCEPT ![p] = "running"]
                   /\ start' = [StartCall EXCEPT !.pc = "settling", !.launched = p]
            /\ lock' = "start"
    /\ UNCHANGED <<lifeVars, appVars, callback_raises, send, stop>>

\* transcriber.py:59-116: the lock is taken; with a handle whose poll()
\* is None the call returns True. Else the executable is looked up
\* ("not_found": return False), the command is built and Popen is called
\* ("raises": an exception before the handle is assigned, caught at
\* 135-138) and the call sleeps with the lock held.
StartBegin(outcome) ==
    /\ lock = "free"
    /\ start.pc \in {"idle", "returned"}
    /\ outcome \in {"ok", "not_found", "raises"}
    /\ IF IsServerRunning
       THEN /\ start' = [StartCall EXCEPT !.pc = "returned", !.result = TRUE]
            /\ UNCHANGED <<server_process, processes, lock>>
       ELSE CASE outcome = "not_found" ->
                 /\ start' = [StartCall EXCEPT !.pc = "returned", !.failure = "not_found"]
                 /\ UNCHANGED <<server_process, processes, lock>>
              [] outcome = "raises" ->
                 /\ start' = [StartCall EXCEPT !.pc = "returned", !.failure = "launch"]
                 /\ server_process' = NoProcess
                 /\ UNCHANGED <<processes, lock>>
              [] outcome = "ok" ->
                 /\ Unused # {}
                 /\ LET p == CHOOSE q \in Unused : \A u \in Unused : q <= u
                    IN  /\ server_process' = p
                        /\ processes' = [processes EXCEPT ![p] = "running"]
                        /\ start' = [StartCall EXCEPT !.pc = "settling", !.launched = p]
                 /\ lock' = "start"
    /\ UNCHANGED <<lifeVars, appVars, callback_raises, send, stop>>

\* the handle kept when the process is gone at the re-check
StartSettledKeepsHandle(outcome) ==
    /\ start.pc = "settling"
    /\ outcome \in {"ok", "raises"}
    /\ IF Alive(server_process)
       THEN /\ start' = [start EXCEPT !.pc = "returned", !.result = TRUE]
            /\ UNCHANGED server_process
       ELSE /\ start' = [start EXCEPT !.pc = "returned",
                            !.failure = IF outcome = "ok" THEN "exited" ELSE "launch"]
            /\ UNCHANGED server_process
    /\ lock' = "free"
    /\ UNCHANGED <<lifeVars, appVars, callback_raises, send, processes, stop>>

\* transcriber.py:119-138: after the sleep poll() is read again: None,
\* return True; else communicate() returns ("ok") or raises, the handle
\* is cleared at 132 or at 137 and the call returns False
StartSettled(outcome) ==
    /\ start.pc = "settling"
    /\ outcome \in {"ok", "raises"}
    /\ IF Alive(server_process)
       THEN /\ start' = [start EXCEPT !.pc = "returned", !.result = TRUE]
            /\ UNCHANGED server_process
       ELSE /\ start' = [start EXCEPT !.pc = "returned",
                            !.failure = IF outcome = "ok" THEN "exited" ELSE "launch"]
            /\ server_process' = NoProcess
    /\ lock' = "free"
    /\ UNCHANGED <<lifeVars, appVars, callback_raises, send, processes, stop>>

StopCall == [NoStop EXCEPT !.call = 1 - stop.call]

\* the handle cleared on the normal path only
StopBeginNoFinally(outcome) ==
    /\ lock = "free"
    /\ stop.pc \in {"idle", "returned"}
    /\ outcome \in {"ok", "raises"}
    /\ IF server_process = NoProcess
       THEN /\ stop' = [StopCall EXCEPT !.pc = "returned"]
            /\ UNCHANGED <<server_process, processes, lock>>
       ELSE IF outcome = "raises"
            THEN /\ stop' = [StopCall EXCEPT !.pc = "returned"]
                 /\ UNCHANGED <<server_process, processes, lock>>
            ELSE /\ stop' = [StopCall EXCEPT !.pc = "waiting", !.terminated = TRUE,
                                             !.since = now]
                 /\ processes' = [processes EXCEPT ![server_process] =
                                      IF @ = "running" THEN "terminating" ELSE @]
                 /\ lock' = "stop"
                 /\ UNCHANGED server_process
    /\ UNCHANGED <<lifeVars, appVars, callback_raises, send, start>>

\* transcriber.py:245-254: the lock is taken; without a handle the call
\* returns. Else terminate() is called, which signals a process that has
\* not exited ("ok") or raises: then the except clause at 261 and the
\* finally clause at 263-264 run. After terminate() the call waits.
StopBegin(outcome) ==
    /\ lock = "free"
    /\ stop.pc \in {"idle", "returned"}
    /\ outcome \in {"ok", "raises"}
    /\ IF server_process = NoProcess
       THEN /\ stop' = [StopCall EXCEPT !.pc = "returned"]
            /\ UNCHANGED <<server_process, processes, lock>>
       ELSE IF outcome = "raises"
            THEN /\ stop' = [StopCall EXCEPT !.pc = "returned"]
                 /\ server_process' = NoProcess
                 /\ UNCHANGED <<processes, lock>>
            ELSE /\ stop' = [StopCall EXCEPT !.pc = "waiting", !.terminated = TRUE,
                                             !.since = now]
                 /\ processes' = [processes EXCEPT ![server_process] =
                                      IF @ = "running" THEN "terminating" ELSE @]
                 /\ lock' = "stop"
                 /\ UNCHANGED server_process
    /\ UNCHANGED <<lifeVars, appVars, callback_raises, send, start>>

\* transcriber.py:254-264: wait(timeout=5) returns once the process has
\* exited ("ok"), or raises TimeoutExpired after 5 s with the process
\* alive: then kill() and wait() end the process ("ok") or kill() raises.
\* The finally clause clears the handle on every path.
StopWait(outcome) ==
    /\ stop.pc = "waiting"
    /\ outcome \in {"ok", "raises"}
    /\ IF ~Alive(server_process)
       THEN /\ outcome = "ok"
            /\ stop' = [stop EXCEPT !.pc = "returned"]
            /\ UNCHANGED processes
       ELSE /\ now - stop.since >= WaitTimeoutSeconds
            /\ IF outcome = "ok"
               THEN /\ stop' = [stop EXCEPT !.pc = "returned", !.killed = TRUE]
                    /\ processes' = [processes EXCEPT ![server_process] = "exited"]
               ELSE /\ stop' = [stop EXCEPT !.pc = "returned"]
                    /\ UNCHANGED processes
    /\ server_process' = NoProcess
    /\ lock' = "free"
    /\ UNCHANGED <<lifeVars, appVars, callback_raises, send, start>>

\* transcriber.py:413, left operand: self.server_process is read and
\* compared with None; no lock is taken
ProbeBegin ==
    /\ probe.pc \in {"idle", "returned"}
    /\ probe' = IF server_process = NoProcess
                THEN [NoProbe EXCEPT !.pc = "returned", !.call = 1 - probe.call]
                ELSE [NoProbe EXCEPT !.pc = "probing", !.call = 1 - probe.call]
    /\ UNCHANGED <<lifeVars, callback_raises, send, serverVars, restart, consumer, audio, hotkey, app>>

\* transcriber.py:413, right operand: self.server_process is read again
\* and poll() is called on what it holds now; on None the attribute
\* lookup raises AttributeError
ProbePoll ==
    /\ probe.pc = "probing"
    /\ probe' = IF server_process = NoProcess
                THEN [probe EXCEPT !.pc = "returned", !.raised = TRUE]
                ELSE [probe EXCEPT !.pc = "returned", !.result = Alive(server_process)]
    /\ UNCHANGED <<lifeVars, callback_raises, send, serverVars, restart, consumer, audio, hotkey, app>>

\* the call c, whose parity was mark when the caller got to it, has been
\* made and has returned
Called(c, mark) == c.call # mark /\ c.pc = "returned"

\* transcriber.py:431-437: restart_server is entered and gets to its
\* stop_server call
RestartBegin ==
    /\ restart.pc \in {"idle", "returned"}
    /\ restart' = [NoRestart EXCEPT !.pc = "stop", !.mark = stop.call]
    /\ UNCHANGED <<lifeVars, callback_raises, send, serverVars, probe, consumer, audio, hotkey, app>>

\* transcriber.py:437-439: stop_server has returned; after the 0.5 s
\* sleep the call gets to start_server
RestartStopped ==
    /\ restart.pc = "stop"
    /\ Called(stop, restart.mark)
    /\ restart' = [restart EXCEPT !.pc = "start", !.mark = start.call]
    /\ UNCHANGED <<lifeVars, callback_raises, send, serverVars, probe, consumer, audio, hotkey, app>>

\* transcriber.py:439: start_server has returned and its value is returned
RestartReturn ==
    /\ restart.pc = "start"
    /\ Called(start, restart.mark)
    /\ restart' = [restart EXCEPT !.pc = "returned", !.result = start.result]
    /\ UNCHANGED <<lifeVars, callback_raises, send, serverVars, probe, consumer, audio, hotkey, app>>

\* ------------------------------------------------------------ specifications

Outcomes == {"ok", "app_raises", "thread_raises"}

\* The connection life cycle against an engine that may be slow, refuse,
\* fail or close at any time, with connect_websocket and
\* disconnect_websocket free to run on different threads.
Next ==
    \/ SetCallback
    \/ \E o \in Outcomes : ConnectBegin(o)
    \/ ConnectSucceed
    \/ ConnectTimeout
    \/ \E o \in Outcomes : ConnectRetry(o)
    \/ \E k \in TransportIds : RunWebsocket(k)
    \/ \E t \in TransportIds : OnOpen(t)
    \/ \E t \in TransportIds : OnError(t)
    \/ \E t \in TransportIds : OnClose(t)
    \/ \E o \in {"ok", "raises"} : DisconnectBegin(o)
    \/ \E o \in {"ok", "raises"} : DisconnectClose(o)

Spec == Init /\ [][Next]_vars

\* Recording sessions against an engine that accepts the connection and
\* streams messages: one caller connects, the engine's messages are
\* reconciled as time passes, the caller disconnects, and again.
Session(n, msgs) ==
    \/ SetCallback
    \/ /\ websocket_client = NoClient
       /\ Created < n
       /\ ConnectBegin("ok")
    \/ ConnectSucceed
    \/ \E k \in TransportIds : RunWebsocket(k)
    \/ \E t \in TransportIds : OnOpen(t)
    \/ conn.pc = "returned" /\ \E t \in TransportIds, msg \in msgs : OnMessage(t, msg)
    \/ conn.pc # "wait" /\ DisconnectBegin("ok")
    \/ DisconnectClose("ok")
    \/ \E t \in TransportIds : transports[t] = "closing" /\ OnClose(t)

\* one session; the clock runs once connect_websocket has returned
NextRecon ==
    \/ Session(1, Messages)
    \/ conn.pc = "returned" /\ Tick

SpecRecon == Init /\ [][NextRecon]_vars

\* sessions in a row, all within one clock reading
NextSessions == Session(MaxSessions, {m \in Messages : MsgSize(m) <= MaxSessionMsgSize})

SpecSessions == Init /\ [][NextSessions]_vars

\* one session, all within one clock reading, with frames that are not
\* JSON and a consumer that may raise
NextFrames ==
    \/ Session(1, Messages)
    \/ \E t \in TransportIds : OnMalformedFrame(t)
    \/ ConsumerBreaks

SpecFrames == Init /\ [][NextFrames]_vars

\* the server process started and stopped from any threads, against a
\* process that may exit at any time, with the clock running
NextServer ==
    \/ \E o \in {"ok", "not_found", "raises"} : StartBegin(o)
    \/ \E o \in {"ok", "raises"} : StartSettled(o)
    \/ \E o \in {"ok", "raises"} : StopBegin(o)
    \/ \E o \in {"ok", "raises"} : StopWait(o)
    \/ \E p \in ProcessIds : ProcessExits(p)
    \/ TickTo(MaxServerTime)

SpecServer == Init /\ [][NextServer]_vars

\* start_recording and stop_recording called from any threads
NextAudio ==
    \E t \in AudioThreads :
        \/ AudioStartBegin(t)
        \/ \E outcome \in {"ok", "create_raises", "start_raises"} : AudioStartOpen(t, outcome)
        \/ AudioStopBegin(t)
        \/ \E outcome \in {"ok", "raises"} : AudioStopClose(t, outcome)

SpecAudio == Init /\ [][NextAudio]_vars

\* the hotkey manager called from any threads
NextHotkey ==
    \E t \in HotkeyThreads, outcome \in {"ok", "raises"} :
        \/ \E combination \in Combinations : RegisterHotkey(t, combination, outcome)
        \/ StartListening(t, outcome)
        \/ StopListening(t, outcome)
        \/ ClearAllHotkeys(t)

SpecHotkey == Init /\ [][NextHotkey]_vars

\* -------------------------------------------------------- the application

MarkOf(fn) ==
    CASE fn = "is_server_running" -> probe.call
      [] fn = "start_server" -> start.call
      [] fn = "stop_server" -> stop.call
      [] fn = "connect_websocket" -> conn.call
      [] fn = "disconnect_websocket" -> disc.call
      [] fn \in {"start_recording", "stop_recording"} -> audio.calls[AppThread].call
      [] fn \in {"register_hotkey", "start_listening", "stop_listening"} ->
             hotkey.calls[AppThread].call
      [] OTHER -> 0

\* the handler gets to the call of fn
Goto(a, fn) == [a EXCEPT !.pc = fn, !.mark = MarkOf(fn)]

Logged(a, fn, result) == [a EXCEPT !.log = Append(@, [fn |-> fn, result |-> result])]

\* the handler is at the call of fn and the call has not been made
Calling(fn, c) == app.pc = fn /\ c.call = app.mark

\* the handler is at the call of fn and the call has returned
Returned(fn, c) == app.pc = fn /\ Called(c, app.mark)

AppFrame ==
    UNCHANGED <<lifeVars, callback_raises, send, serverVars, probe, restart, audio, hotkey>>

\* main.py:74-87: with the consumer registered, __init__ gets to
\* register_hotkey
AppConstruct ==
    /\ app.pc = "new"
    /\ transcription_callback
    /\ app' = Goto([app EXCEPT !.op = "init"], "register_hotkey")
    /\ UNCHANGED consumer
    /\ AppFrame

\* main.py:87-88
AppRegistered ==
    /\ Returned("register_hotkey", hotkey.calls[AppThread])
    /\ app' = IF hotkey.calls[AppThread].raised
              THEN [Logged(app, "register_hotkey", FALSE) EXCEPT !.pc = "crashed"]
              ELSE Goto(Logged(app, "register_hotkey", TRUE), "start_listening")
    /\ UNCHANGED consumer
    /\ AppFrame

\* main.py:88-92
AppListening ==
    /\ Returned("start_listening", hotkey.calls[AppThread])
    /\ app' = IF hotkey.calls[AppThread].raised
              THEN [Logged(app, "start_listening", FALSE) EXCEPT !.pc = "crashed"]
              ELSE Goto(Logged(app, "start_listening", TRUE), "start_server")
    /\ UNCHANGED consumer
    /\ AppFrame

\* main.py:112-119 and 153-158: toggle_recording reads is_recording and
\* gets to is_server_running or to stop_recording
ToggleRecording ==
    /\ app.pc = "idle"
    /\ app.handled < MaxHandlers
    /\ app' = LET a == [app EXCEPT !.log = <<>>, !.handled = @ + 1]
              IN  IF ~app.is_recording
                  THEN Goto([a EXCEPT !.op = "start"], "is_server_running")
                  ELSE Goto([a EXCEPT !.op = "stop"], "stop_recording")
    /\ UNCHANGED consumer
    /\ AppFrame

\* main.py:263-271: quit_application gets to stop_recording or, when
\* nothing records, to stop_server
QuitApplication ==
    /\ app.pc = "idle"
    /\ app.handled < MaxHandlers
    /\ app' = Goto([app EXCEPT !.op = "quit", !.log = <<>>, !.handled = @ + 1],
                   IF app.is_recording THEN "stop_recording" ELSE "stop_server")
    /\ UNCHANGED consumer
    /\ AppFrame

\* main.py:119-135: is_server_running returned (an exception raised by it
\* leaves toggle_recording)
AppProbed ==
    /\ Returned("is_server_running", probe)
    /\ app' = IF probe.raised
              THEN [Logged(app, "is_server_running", FALSE) EXCEPT
                        !.pc = "idle", !.failed = TRUE]
              ELSE Goto(Logged(app, "is_server_running", probe.result),
                        IF probe.result THEN "connect_websocket" ELSE "start_server")
    /\ UNCHANGED consumer
    /\ AppFrame

\* main.py:92-99 and 121-135: start_server returned; __init__ only logs a
\* failure, toggle_recording shows the alert and returns
AppServerStarted ==
    /\ Returned("start_server", start)
    /\ app' = LET a == Logged(app, "start_server", start.result)
              IN  IF app.op = "init" THEN [a EXCEPT !.pc = "idle"]
                  ELSE IF start.result THEN Goto(a, "connect_websocket")
                  ELSE [a EXCEPT !.pc = "idle", !.failed = TRUE]
    /\ UNCHANGED consumer
    /\ AppFrame

\* connect_websocket failing without the server being stopped
AppConnectedNoCleanup ==
    /\ Returned("connect_websocket", conn)
    /\ app' = LET a == Logged(app, "connect_websocket", conn.result)
              IN  IF conn.result THEN Goto(a, "start_recording")
                  ELSE [a EXCEPT !.pc = "idle", !.failed = TRUE]
    /\ UNCHANGED consumer
    /\ AppFrame

\* main.py:135-141: connect_websocket returned
AppConnected ==
    /\ Returned("connect_websocket", conn)
    /\ app' = LET a == Logged(app, "connect_websocket", conn.result)
              IN  Goto(a, IF conn.result THEN "start_recording" ELSE "stop_server")
    /\ UNCHANGED consumer
    /\ AppFrame

\* main.py:141-151: start_recording returned
AppAudioStarted ==
    /\ Returned("start_recording", audio.calls[AppThread])
    /\ app' = LET a == Logged(app, "start_recording", audio.calls[AppThread].result)
              IN  IF audio.calls[AppThread].result
                  THEN [a EXCEPT !.is_recording = TRUE, !.pc = "idle"]
                  ELSE Goto(a, "disconnect_websocket")
    /\ UNCHANGED consumer
    /\ AppFrame

\* main.py:158-159 and 267-268: stop_recording returned
AppAudioStopped ==
    /\ Returned("stop_recording", audio.calls[AppThread])
    /\ app' = Goto(Logged(app, "stop_recording", TRUE), "disconnect_websocket")
    /\ UNCHANGED consumer
    /\ AppFrame

\* main.py:143-144, 159-160 and 268-271: disconnect_websocket returned and
\* stop_server is next, in the cleanup after a failed start_recording, in
\* the stop branch of toggle_recording and in quit_application
AppDisconnected ==
    /\ Returned("disconnect_websocket", disc)
    /\ app' = Goto(Logged(app, "disconnect_websocket", TRUE), "stop_server")
    /\ UNCHANGED consumer
    /\ AppFrame

\* main.py:137-138, 144-145, 160-170 and 271-272: stop_server returned.
\* The start branch returns; the stop branch resets _inserted_text when it
\* exists and clears is_recording; quit_application gets to stop_listening
AppServerStopped ==
    /\ Returned("stop_server", stop)
    /\ app' = LET a == Logged(app, "stop_server", TRUE)
              IN  CASE app.op = "start" -> [a EXCEPT !.pc = "idle", !.failed = TRUE]
                    [] app.op = "stop" -> [a EXCEPT !.pc = "idle", !.is_recording = FALSE]
                    [] OTHER -> Goto(a, "stop_listening")
    /\ consumer' = IF app.op = "stop" /\ consumer.has_attr
                   THEN [consumer EXCEPT !.inserted_text = <<>>]
                   ELSE consumer
    /\ AppFrame

\* main.py:272-275: stop_listening returned and the application quits; an
\* exception raised by it leaves quit_application with the application
\* still running
AppListenerStopped ==
    /\ Returned("stop_listening", hotkey.calls[AppThread])
    /\ app' = IF hotkey.calls[AppThread].raised
              THEN [Logged(app, "stop_listening", FALSE) EXCEPT !.pc = "idle"]
              ELSE [Logged(app, "stop_listening", TRUE) EXCEPT !.pc = "quit"]
    /\ UNCHANGED consumer
    /\ AppFrame

\* ------------------------------- toggle_recording on the listener thread

HkMarkOf(fn) ==
    IF fn \in {"start_recording", "stop_recording"}
    THEN audio.calls[HotkeyThread].call
    ELSE MarkOf(fn)

HkGoto(h, fn) == [h EXCEPT !.pc = fn, !.mark = HkMarkOf(fn)]
HkCalling(fn, c) == app.hk.pc = fn /\ c.call = app.hk.mark
HkReturned(fn, c) == app.hk.pc = fn /\ Called(c, app.hk.mark)

\* main.py:172-174, 112-119 and 153-158: the listener thread calls
\* toggle_recording, which reads is_recording and gets to is_server_running
\* or to stop_recording
HkToggle ==
    /\ hotkey.is_listening
    /\ app.hk.pc = "idle"
    /\ app.hk.handled < MaxHotkeyToggles
    /\ app' = LET h == [app.hk EXCEPT !.handled = @ + 1]
              IN  [app EXCEPT !.hk =
                       IF ~app.is_recording
                       THEN HkGoto([h EXCEPT !.op = "start"], "is_server_running")
                       ELSE HkGoto([h EXCEPT !.op = "stop"], "stop_recording")]
    /\ UNCHANGED consumer
    /\ AppFrame

\* main.py:119-135
HkProbed ==
    /\ HkReturned("is_server_running", probe)
    /\ app' = [app EXCEPT !.hk =
                   IF probe.raised THEN [@ EXCEPT !.pc = "idle"]
                   ELSE HkGoto(@, IF probe.result THEN "connect_websocket"
                                  ELSE "start_server")]
    /\ UNCHANGED consumer
    /\ AppFrame

\* main.py:121-135
HkServerStarted ==
    /\ HkReturned("start_server", start)
    /\ app' = [app EXCEPT !.hk =
                   IF start.result THEN HkGoto(@, "connect_websocket")
                   ELSE [@ EXCEPT !.pc = "idle"]]
    /\ UNCHANGED consumer
    /\ AppFrame

\* main.py:135-141
HkConnected ==
    /\ HkReturned("connect_websocket", conn)
    /\ app' = [app EXCEPT !.hk =
                   HkGoto(@, IF conn.result THEN "start_recording" ELSE "stop_server")]
    /\ UNCHANGED consumer
    /\ AppFrame

\* main.py:141-151
HkAudioStarted ==
    /\ HkReturned("start_recording", audio.calls[HotkeyThread])
    /\ app' = IF audio.calls[HotkeyThread].result
              THEN [app EXCEPT !.is_recording = TRUE, !.hk.pc = "idle"]
              ELSE [app EXCEPT !.hk = HkGoto(@, "disconnect_websocket")]
    /\ UNCHANGED consumer
    /\ AppFrame

\* main.py:158-159
HkAudioStopped ==
    /\ HkReturned("stop_recording", audio.calls[HotkeyThread])
    /\ app' = [app EXCEPT !.hk = HkGoto(@, "disconnect_websocket")]
    /\ UNCHANGED consumer
    /\ AppFrame

\* main.py:143-144 and 159-160
HkDisconnected ==
    /\ HkReturned("disconnect_websocket", disc)
    /\ app' = [app EXCEPT !.hk = HkGoto(@, "stop_server")]
    /\ UNCHANGED consumer
    /\ AppFrame

\* main.py:137-138, 144-145 and 160-170
HkServerStopped ==
    /\ HkReturned("stop_server", stop)
    /\ app' = IF app.hk.op = "stop"
              THEN [app EXCEPT !.is_recording = FALSE, !.hk.pc = "idle"]
              ELSE [app EXCEPT !.hk.pc = "idle"]
    /\ consumer' = IF app.hk.op = "stop" /\ consumer.has_attr
                   THEN [consumer EXCEPT !.inserted_text = <<>>]
                   ELSE consumer
    /\ AppFrame

\* the two threads are not at the same call of the service
NoClash == app.hk.pc = "idle" \/ app.hk.pc # app.pc

\* The application with every call succeeding and toggle_recording run by
\* the menu thread and by the hotkey listener thread, in any interleaving
\* of their calls on the service and on the audio capture in which the two
\* are not inside the same call
NextToggle ==
    \/ SetCallback
    \/ AppConstruct /\ NoClash'
    \/ Calling("register_hotkey", hotkey.calls[AppThread])
         /\ RegisterHotkey(AppThread, 1, "ok")
    \/ AppRegistered /\ NoClash'
    \/ Calling("start_listening", hotkey.calls[AppThread])
         /\ StartListening(AppThread, "ok")
    \/ AppListening /\ NoClash'
    \/ (Calling("start_server", start) \/ HkCalling("start_server", start))
         /\ StartBegin("ok")
    \/ StartSettled("ok")
    \/ AppServerStarted /\ NoClash'
    \/ HkServerStarted /\ NoClash'
    \/ ToggleRecording /\ NoClash'
    \/ HkToggle /\ NoClash'
    \/ (Calling("is_server_running", probe) \/ HkCalling("is_server_running", probe))
         /\ ProbeBegin
    \/ ProbePoll
    \/ AppProbed /\ NoClash'
    \/ HkProbed /\ NoClash'
    \/ (Calling("connect_websocket", conn) \/ HkCalling("connect_websocket", conn))
         /\ ConnectBegin("ok")
    \/ ConnectSucceed
    \/ \E k \in TransportIds : RunWebsocket(k)
    \/ \E t \in TransportIds : OnOpen(t)
    \/ \E t \in TransportIds : transports[t] = "closing" /\ OnClose(t)
    \/ AppConnected /\ NoClash'
    \/ HkConnected /\ NoClash'
    \/ Calling("start_recording", audio.calls[AppThread]) /\ AudioStartBegin(AppThread)
    \/ HkCalling("start_recording", audio.calls[HotkeyThread])
         /\ AudioStartBegin(HotkeyThread)
    \/ \E t \in {AppThread, HotkeyThread} : AudioStartOpen(t, "ok")
    \/ AppAudioStarted /\ NoClash'
    \/ HkAudioStarted /\ NoClash'
    \/ Calling("stop_recording", audio.calls[AppThread]) /\ AudioStopBegin(AppThread)
    \/ HkCalling("stop_recording", audio.calls[HotkeyThread])
         /\ AudioStopBegin(HotkeyThread)
    \/ \E t \in {AppThread, HotkeyThread} : AudioStopClose(t, "ok")
    \/ AppAudioStopped /\ NoClash'
    \/ HkAudioStopped /\ NoClash'
    \/ (Calling("disconnect_websocket", disc) \/ HkCalling("disconnect_websocket", disc))
         /\ DisconnectBegin("ok")
    \/ DisconnectClose("ok")
    \/ AppDisconnected /\ NoClash'
    \/ HkDisconnected /\ NoClash'
    \/ (Calling("stop_server", stop) \/ HkCalling("stop_server", stop))
         /\ StopBegin("ok")
    \/ StopWait("ok")
    \/ AppServerStopped /\ NoClash'
    \/ HkServerStopped /\ NoClash'
    \/ \E p \in ProcessIds : ProcessExits(p)

SpecToggle == Init /\ [][NextToggle]_vars

\* The application: __init__, then toggle_recording and quit_application
\* one at a time, each making its calls on the service, the audio capture
\* and the hotkey manager, with the transports and the server processes
\* running beside it. The clock stands still: stop_server's wait ends when
\* the process has exited.
NextApp ==
    \/ SetCallback
    \/ AppConstruct
    \/ /\ Calling("register_hotkey", hotkey.calls[AppThread])
       /\ \E o \in {"ok", "raises"} : RegisterHotkey(AppThread, 1, o)
    \/ AppRegistered
    \/ /\ Calling("start_listening", hotkey.calls[AppThread])
       /\ \E o \in {"ok", "raises"} : StartListening(AppThread, o)
    \/ AppListening
    \/ /\ Calling("start_server", start)
       /\ \E o \in {"ok", "not_found", "raises"} : StartBegin(o)
    \/ \E o \in {"ok", "raises"} : StartSettled(o)
    \/ AppServerStarted
    \/ ToggleRecording
    \/ QuitApplication
    \/ Calling("is_server_running", probe) /\ ProbeBegin
    \/ ProbePoll
    \/ AppProbed
    \/ /\ Calling("connect_websocket", conn)
       /\ Created + MaxRetries <= MaxAppTransports
       /\ \E o \in Outcomes : ConnectBegin(o)
    \/ ConnectSucceed
    \/ ConnectTimeout
    \/ \E o \in Outcomes : ConnectRetry(o)
    \/ \E k \in TransportIds : RunWebsocket(k)
    \/ \E t \in TransportIds : OnOpen(t)
    \/ \E t \in TransportIds : OnError(t)
    \/ \E t \in TransportIds : OnClose(t)
    \/ AppConnected
    \/ Calling("start_recording", audio.calls[AppThread]) /\ AudioStartBegin(AppThread)
    \/ \E o \in {"ok", "create_raises", "start_raises"} : AudioStartOpen(AppThread, o)
    \/ AppAudioStarted
    \/ Calling("stop_recording", audio.calls[AppThread]) /\ AudioStopBegin(AppThread)
    \/ \E o \in {"ok", "raises"} : AudioStopClose(AppThread, o)
    \/ AppAudioStopped
    \/ /\ Calling("disconnect_websocket", disc)
       /\ \E o \in {"ok", "raises"} : DisconnectBegin(o)
    \/ \E o \in {"ok", "raises"} : DisconnectClose(o)
    \/ AppDisconnected
    \/ /\ Calling("stop_server", stop)
       /\ \E o \in {"ok", "raises"} : StopBegin(o)
    \/ \E o \in {"ok", "raises"} : StopWait(o)
    \/ AppServerStopped
    \/ /\ Calling("stop_listening", hotkey.calls[AppThread])
       /\ \E o \in {"ok", "raises"} : StopListening(AppThread, o)
    \/ AppListenerStopped
    \/ \E p \in ProcessIds : ProcessExits(p)

SpecApp == Init /\ [][NextApp]_vars

\* One recording session of the application with every call succeeding:
\* __init__, toggle_recording to start and toggle_recording to stop, while
\* the open transport's thread hands events to the consumer
NextInsert ==
    \/ SetCallback
    \/ AppConstruct
    \/ Calling("register_hotkey", hotkey.calls[AppThread]) /\ RegisterHotkey(AppThread, 1, "ok")
    \/ AppRegistered
    \/ Calling("start_listening", hotkey.calls[AppThread]) /\ StartListening(AppThread, "ok")
    \/ AppListening
    \/ Calling("start_server", start) /\ StartBegin("ok")
    \/ StartSettled("ok")
    \/ AppServerStarted
    \/ ToggleRecording
    \/ Calling("is_server_running", probe) /\ ProbeBegin
    \/ ProbePoll
    \/ AppProbed
    \/ Calling("connect_websocket", conn) /\ ConnectBegin("ok")
    \/ ConnectSucceed
    \/ \E k \in TransportIds : RunWebsocket(k)
    \/ \E t \in TransportIds : OnOpen(t)
    \/ \E t \in TransportIds : transports[t] = "closing" /\ OnClose(t)
    \/ AppConnected
    \/ Calling("start_recording", audio.calls[AppThread]) /\ AudioStartBegin(AppThread)
    \/ AudioStartOpen(AppThread, "ok")
    \/ AppAudioStarted
    \/ Calling("stop_recording", audio.calls[AppThread]) /\ AudioStopBegin(AppThread)
    \/ AudioStopClose(AppThread, "ok")
    \/ AppAudioStopped
    \/ Calling("disconnect_websocket", disc) /\ DisconnectBegin("ok")
    \/ DisconnectClose("ok")
    \/ AppDisconnected
    \/ Calling("stop_server", stop) /\ StopBegin("ok")
    \/ StopWait("ok")
    \/ AppServerStopped
    \/ \E p \in ProcessIds : ProcessExits(p)
    \/ /\ \E t \in TransportIds : transports[t] = "open"
       /\ \E text \in RawStrings, is_final \in BOOLEAN, outcome \in {"ok", "raises"} :
              ConsumerHandles(text, is_final, outcome)

SpecInsert == Init /\ [][NextInsert]_vars

\* the consumer given any events in any order
NextConsumer ==
    \E text \in RawStrings, is_final \in BOOLEAN, outcome \in {"ok", "raises"} :
        ConsumerHandles(text, is_final, outcome)

SpecConsumer == Init /\ [][NextConsumer]_vars

\* The server started, stopped, restarted and probed from any threads.
\* A stop_server or start_server call made while restart_server stands
\* at that call is the one restart_server makes; other threads make
\* theirs once restart_server has taken note of the return.
NextSupervisor ==
    \/ /\ ~(restart.pc = "start" /\ Called(start, restart.mark))
       /\ \E o \in {"ok", "not_found", "raises"} : StartBegin(o)
    \/ \E o \in {"ok", "raises"} : StartSettled(o)
    \/ /\ ~(restart.pc = "stop" /\ Called(stop, restart.mark))
       /\ \E o \in {"ok", "raises"} : StopBegin(o)
    \/ \E o \in {"ok", "raises"} : StopWait(o)
    \/ \E p \in ProcessIds : ProcessExits(p)
    \/ TickTo(MaxServerTime)
    \/ ProbeBegin
    \/ ProbePoll
    \/ RestartBegin
    \/ RestartStopped
    \/ RestartReturn

SpecSupervisor == Init /\ [][NextSupervisor]_vars

\* the connection life cycle, its transports and threads created without
\* failure, with the audio producer sending chunks
NextSend ==
    \/ SetCallback
    \/ ConnectBegin("ok")
    \/ ConnectSucceed
    \/ ConnectTimeout
    \/ ConnectRetry("ok")
    \/ \E k \in TransportIds : RunWebsocket(k)
    \/ \E t \in TransportIds : OnOpen(t)
    \/ \E t \in TransportIds : OnError(t)
    \/ \E t \in TransportIds : OnClose(t)
    \/ \E o \in {"ok", "raises"} : DisconnectBegin(o)
    \/ \E o \in {"ok", "raises"} : DisconnectClose(o)
    \/ SendBegin
    \/ \E o \in {"ok", "raises"} : SendWrite(o)

SpecSend == Init /\ [][NextSend]_vars

\* ------------------------------------------------------ reconciliation claims

\* a transport is open, so that a message can arrive
Receiving == \E t \in TransportIds : transports[t] = "open"

\* the messages that can arrive next, other than the ready_to_stop signal
NormalMessages ==
    IF Receiving THEN {m \in Messages : m.type # "ready_to_stop"} ELSE {}

PartialsOf(m) == Partials(HandleMessage(tracking, m, now).events)

Suffix(s, n) == SubSeq(s, n + 1, Len(s))

RawExtends(s, prev) == Len(s) > Len(prev) /\ SubSeq(s, 1, Len(prev)) = prev

\* more than the silence timeout has passed at time t since the last
\* emission recorded in r
SilentSince(r, t) ==
    r.last_meaningful_time # NoTime /\ t - r.last_meaningful_time > 3

NoDuplicates(s) == \A i, j \in 1..Len(s) : s[i] = s[j] => i = j

LineTexts(m) == {Strip(m.lines[i].text) : i \in 1..Len(m.lines)} \ {<<>>}

\* C1: across the messages of a session, each of which lists every line
\* sent so far, the final events delivered are exactly the distinct
\* non-empty trimmed line texts in first-seen order, each at most once:
\* whatever message comes next, the finals delivered so far followed by the
\* finals it delivers are the first-seen extension of the finals so far by
\* its lines.
C1_IdempotentFinalization ==
    /\ NoDuplicates(sessionFinals)
    /\ \A m \in NormalMessages :
           Range(sessionFinals) \subseteq LineTexts(m) =>
               sessionFinals \o FinalTexts(HandleMessage(tracking, m, now).events)
                   = FirstSeen(sessionFinals, m.lines)

\* C2 as stated: a buffer_transcription that strictly extends the stored
\* buffer text, with no silence reset, yields exactly one partial event
\* whose text is the suffix beyond the stored text.
C2_Original ==
    \A m \in NormalMessages :
        (/\ RawExtends(m.buffer, tracking.last_buffer_text)
         /\ ~SilentSince(tracking, now))
        => PartialsOf(m)
               = <<Event(Suffix(m.buffer, Len(tracking.last_buffer_text)), FALSE)>>

\* C2: a buffer_transcription whose trimmed value strictly extends the
\* stored buffer text, with no silence reset, yields exactly one partial
\* event whose text is the suffix of the trimmed value beyond the stored
\* text, never the full string (unless nothing was stored).
C2_PrefixDiff ==
    \A m \in NormalMessages :
        LET buffer_text == Strip(m.buffer)
            stored == tracking.last_buffer_text
        IN  (/\ RawExtends(buffer_text, stored)
             /\ ~SilentSince(tracking, now))
            => /\ PartialsOf(m) = <<Event(Suffix(buffer_text, Len(stored)), FALSE)>>
               /\ stored # <<>> => PartialsOf(m) # <<Event(buffer_text, FALSE)>>

C2_Witness ==
    /\ rx.branch = "extension"
    /\ ~rx.silence
    /\ rx.partials = <<Event(<<"b">>, FALSE)>>
    /\ tracking.last_buffer_text = <<"a", "b">>

\* C3 as stated: a non-empty buffer_transcription that neither equals nor
\* extends the stored buffer text yields one partial event carrying the
\* value verbatim.
C3_Original ==
    \A m \in NormalMessages :
        (/\ m.buffer # <<>>
         /\ m.buffer # tracking.last_buffer_text
         /\ ~RawExtends(m.buffer, tracking.last_buffer_text))
        => PartialsOf(m) = <<Event(m.buffer, FALSE)>>

\* C3: a buffer_transcription whose trimmed value is non-empty and neither
\* equals nor extends the stored buffer text yields one partial event
\* carrying the full trimmed value.
C3_DivergenceFallback ==
    \A m \in NormalMessages :
        LET buffer_text == Strip(m.buffer)
        IN  (/\ buffer_text # <<>>
             /\ buffer_text # tracking.last_buffer_text
             /\ ~RawExtends(buffer_text, tracking.last_buffer_text))
            => PartialsOf(m) = <<Event(buffer_text, FALSE)>>

C3_Witness ==
    /\ rx.branch = "other"
    /\ ~rx.silence
    /\ tracking.last_buffer_text = <<"b", "a">>
    /\ rx.partials = <<Event(<<"b", "a">>, FALSE)>>

\* the messages that carry the buffer_transcription of the last message
\* handled, which was not blank
Repeats == {m \in NormalMessages : m.buffer = rx.buffer /\ Strip(rx.buffer) # <<>>}

\* handling m now delivers no partial event and leaves the stored buffer
\* and the emission time alone
IsSilent(m) ==
    LET out == HandleMessage(tracking, m, now)
    IN  /\ Partials(out.events) = <<>>
        /\ out.r.last_buffer_text = tracking.last_buffer_text
        /\ out.r.last_buffer_content = tracking.last_buffer_content
        /\ out.r.last_meaningful_time = tracking.last_meaningful_time

\* C4 as stated: of two consecutive messages carrying the identical
\* buffer_transcription value the second produces no partial event and
\* does not update the emission time or the stored buffer, so that the two
\* yield one partial event and not two.
C4_Original ==
    /\ Len(rx.partials) <= 1
    /\ \A m \in Repeats : IsSilent(m)

\* C4: of two consecutive messages carrying the identical
\* buffer_transcription value the second produces no partial event and
\* leaves the stored buffer and the emission time unchanged, provided it
\* arrives no more than the silence timeout after the last emission.
C4_ExactRepeat ==
    /\ Len(rx.partials) <= 1
    /\ \A m \in Repeats : ~SilentSince(tracking, now) => IsSilent(m)

C4_Witness ==
    /\ rx.branch = "repeat"
    /\ ~rx.silence
    /\ rx.partials = <<>>
    /\ rx.buffer = <<"a", " ">>
    /\ tracking.last_buffer_content = <<"a">>
    /\ now > tracking.last_meaningful_time

\* C5 as stated: once more than 3 seconds have passed since the last
\* emitted event, the next non-empty buffer_transcription is emitted in
\* full, even when it equals or extends the stale stored text.
C5_Original ==
    \A m \in NormalMessages :
        (SilentSince(tracking, now) /\ m.buffer # <<>>)
            => PartialsOf(m) = <<Event(m.buffer, FALSE)>>

\* C5: once more than 3 seconds have passed since the last emitted event,
\* the next buffer_transcription that is non-empty after trimming is
\* emitted as one partial event carrying its full trimmed value, even when
\* it equals or extends the stale stored text.
C5_SilenceReset ==
    \A m \in NormalMessages :
        (SilentSince(tracking, now) /\ Strip(m.buffer) # <<>>)
            => PartialsOf(m) = <<Event(Strip(m.buffer), FALSE)>>

C5_Witness ==
    /\ rx.silence
    /\ rx.branch \in {"repeat", "extension"}
    /\ tracking.last_buffer_text # <<>>
    /\ rx.partials = <<Event(tracking.last_buffer_text, FALSE)>>

\* ---------------------------------------------------------- session claims

\* disconnect_websocket has returned and no message was handled since
JustReset == disc.pc = "returned" /\ rx.branch = "idle"

ZeroTracking ==
    /\ tracking.sent_texts = {}
    /\ tracking.last_buffer_text = <<>>
    /\ tracking.last_buffer_content = <<>>
    /\ tracking.last_meaningful_time = NoTime

\* C6: once disconnect_websocket has returned, with or without a handle
\* on entry, no sent line is remembered, both stored buffers are empty and
\* the emission time is unset; the next message then has each of its
\* non-empty trimmed lines delivered as a final event, also one delivered
\* in an earlier session, and its non-empty trimmed buffer emitted in full,
\* also when it is the buffer stored before the disconnect.
C6_DisconnectResets ==
    JustReset =>
        /\ ZeroTracking
        /\ \A m \in NormalMessages :
               LET out == HandleMessage(tracking, m, now)
               IN  /\ LineTexts(m) \subseteq Range(FinalTexts(out.events))
                   /\ Strip(m.buffer) # <<>>
                          => Partials(out.events) = <<Event(Strip(m.buffer), FALSE)>>

\* a second session got the first message it handled after the reset: the
\* line finalized in the first session again, and the first session's last
\* buffer in full
C6_Witness ==
    /\ disc.pc = "returned"
    /\ disc.call = 1
    /\ websocket_client # NoClient
    /\ prior.finals # {}
    /\ Range(sessionFinals) = prior.finals
    /\ prior.buffer # <<>>
    /\ rx.partials = <<Event(prior.buffer, FALSE)>>

\* ------------------------------------------------------- connection claims

\* the step in which connect_websocket returns
ConnectReturns == conn' # conn /\ conn'.pc = "returned"

\* C7: connect_websocket returns True only in a step that reads
\* is_connected as True, and a wait that ends the third attempt with
\* is_connected False makes it return False.
C7_ConnectResult ==
    [][/\ (ConnectReturns /\ conn'.result) => (is_connected /\ is_connected')
       /\ (conn.pc = "wait" /\ conn.waits = 3 /\ ~is_connected /\ conn'.pc # conn.pc)
             => (conn'.pc = "returned" /\ ~conn'.result)]_vars

C7_Witness ==
    /\ conn.pc = "returned"
    /\ conn.result
    /\ conn.attempt = 1
    /\ is_connected
    /\ websocket_client # NoClient
    /\ transports[websocket_client] = "open"

NeverOpened == \A t \in TransportIds : ~HasOpened(t)

\* the call got past the callback check
Attempted == conn.created > 0 \/ conn.raised

\* C8 as stated: when no open event occurs, a call of connect_websocket
\* that attempts a connection has created and started exactly 3 transports
\* with 2 backoffs when it returns, and returns False; it never goes
\* beyond 3 waits and 2 backoffs.
C8_Original ==
    /\ conn.waits <= 3 /\ conn.backoffs <= 2
    /\ (conn.pc = "returned" /\ Attempted /\ NeverOpened)
           => (~conn.result /\ conn.created = 3 /\ conn.backoffs = 2)

\* C8: when no transport ever opens and neither the creation of a
\* transport nor the start of its thread raises, connect_websocket has
\* created and started exactly 3 transports, waited 3 times and slept 2
\* backoffs when it returns, and returns False; when one of them raises it
\* returns False at once; no call goes beyond 3 transports, 3 waits and 2
\* backoffs.
C8_RetryBound ==
    /\ conn.created <= 3 /\ conn.waits <= 3 /\ conn.backoffs <= 2
    /\ conn.created <= conn.backoffs + 1
    /\ conn.raised => (conn.pc = "returned" /\ ~conn.result)
    /\ (conn.pc = "returned" /\ Attempted /\ ~conn.raised /\ NeverOpened)
           => (~conn.result /\ conn.created = 3 /\ conn.waits = 3 /\ conn.backoffs = 2)

C8_Witness ==
    /\ conn.pc = "returned"
    /\ ~conn.result
    /\ ~conn.raised
    /\ conn.created = 3
    /\ conn.waits = 3
    /\ conn.backoffs = 2
    /\ NeverOpened

\* C9: a call of connect_websocket made while no callback is registered
\* returns False at once, creates no transport, starts no thread and
\* leaves the handle and is_connected as they were.
C9_NoCallbackNoAttempt ==
    [][(conn' # conn /\ conn.pc \in {"idle", "returned"} /\ ~transcription_callback)
          => /\ conn'.pc = "returned"
             /\ ~conn'.result
             /\ conn'.created = 0
             /\ ~conn'.raised
             /\ transports' = transports
             /\ websocket_client' = websocket_client
             /\ is_connected' = is_connected]_vars

C9_Witness ==
    /\ ~transcription_callback
    /\ conn.pc = "returned"
    /\ conn.call = 1
    /\ ~conn.result
    /\ conn.created = 0
    /\ Created = 0

\* C10: whenever disconnect_websocket returns, the handle is None and
\* is_connected is False, also when the send or the close failed and when
\* there was no handle on entry.
C10_DisconnectClears ==
    [][(disc' # disc /\ disc'.pc = "returned")
          => (websocket_client' = NoClient /\ is_connected' = FALSE)]_vars

\* ------------------------------------------------------- cancellation claims

\* C11: once a disconnect_websocket entered while connect_websocket was
\* waiting or backing off and that connect_websocket have both returned,
\* the handle is None and is_connected is False, and this lasts until the
\* next connect_websocket call begins.
C11_DisconnectDuringConnect ==
    (conn.pc = "returned" /\ conn.interrupted /\ disc.pc = "returned")
        => (websocket_client = NoClient /\ ~is_connected)

\* ---------------------------------------------------------- sending claims

\* C12: send_audio_chunk goes on to the write only when it read
\* is_connected as True with a handle present, and otherwise returns
\* without a write; a frame is written only by a call that passed this
\* check, on the open transport the handle names at the write; no
\* exception leaves the call, also when the write fails or
\* disconnect_websocket cleared the handle after the check.
C12_SendSafe ==
    [][/\ (send' # send /\ send'.pc = "checked")
             => (is_connected /\ websocket_client # NoClient)
       /\ (send' # send /\ send.pc \in {"idle", "returned"}
                /\ (~is_connected \/ websocket_client = NoClient))
             => (send'.pc = "returned" /\ ~send'.wrote)
       /\ (send'.wrote /\ send' # send)
             => /\ send.pc = "checked"
                /\ websocket_client # NoClient
                /\ transports[websocket_client] = "open"
       /\ ~send'.raised]_vars

\* a call that passed the check found the handle cleared by a
\* disconnect_websocket and returned all the same
C12_Witness ==
    /\ send.pc = "returned"
    /\ send.caught
    /\ ~send.wrote
    /\ websocket_client = NoClient
    /\ disc.pc = "returned"
    /\ \E t \in TransportIds : transports[t] = "closing"

\* -------------------------------------------------------- threading claims

\* the transports whose thread is in a receive loop that hands frames to
\* _on_message
ReceiveLoops == {t \in TransportIds : transports[t] = "open"}

\* C13: message handling runs on one receive-loop thread only, the single
\* writer of the reconciliation state: at no time are there two threads
\* each in a receive loop that delivers frames to _on_message.
C13_SingleWriter == Cardinality(ReceiveLoops) <= 1

\* ------------------------------------------------------------ frame claims

\* C14: with a consumer that raises, every message is handled as with one
\* that returns: the same events are handed over in the same order, also
\* those after the first of the message, and the tracking state comes out
\* the same, each delivered line recorded as sent.
C14_CallbackIsolation ==
    \A m \in NormalMessages :
        LET out == Reconcile(tracking, m, now, TRUE)
        IN  /\ out = Reconcile(tracking, m, now, FALSE)
            /\ Range(FinalTexts(out.events)) \subseteq out.r.sent_texts

\* the consumer raised on both lines of a message, which were both
\* delivered and recorded, after a partial of an earlier message
C14_Witness ==
    /\ callback_raises
    /\ rx.raised
    /\ rx.branch = "empty"
    /\ Len(sessionFinals) = 2
    /\ tracking.sent_texts = Range(sessionFinals)
    /\ tracking.last_buffer_text # <<>>

\* C15: a frame that is not JSON hands no event to the consumer and
\* leaves the tracking state, the handle, is_connected and the transports
\* as they were, so that the next message finds what it would have found
\* without the frame.
C15_MalformedFrameIgnored ==
    [][(rx'.branch = "malformed" /\ rx' # rx)
          => /\ rx'.partials = <<>>
             /\ UNCHANGED <<tracking, sessionFinals, now, callback_raises>>
             /\ UNCHANGED <<websocket_client, is_connected, transports, conn, disc>>]_vars

C15_Witness ==
    /\ rx.branch = "malformed"
    /\ is_connected
    /\ tracking.sent_texts # {}
    /\ tracking.last_buffer_text # <<>>
    /\ conn.pc = "returned"

\* the ready_to_stop signals that can arrive next, with or without a
\* buffer or lines
StopSignals ==
    IF Receiving THEN {m \in Messages : m.type = "ready_to_stop"} ELSE {}

\* C16: a ready_to_stop message, whatever buffer or lines it carries,
\* hands no event to the consumer and leaves every tracking attribute as
\* it was, the stored buffer and the emission time too when the silence
\* timeout has passed, and creates no attribute.
C16_ReadyToStopInert ==
    \A m \in StopSignals :
        HandleMessage(tracking, m, now) = [r |-> tracking, events |-> <<>>]

\* a ready_to_stop message was handled after the silence timeout had
\* passed, with a buffer stored and a line sent
C16_Witness ==
    /\ rx.branch = "none"
    /\ SilentSince(tracking, now)
    /\ tracking.last_buffer_text # <<>>
    /\ tracking.sent_texts # {}

\* the step in which disconnect_websocket returns
DisconnectReturns == disc' # disc /\ disc'.pc = "returned"

\* C17: no step removes a line from the set of sent lines, the handling
\* of a message that triggers the silence reset included, other than the
\* return of disconnect_websocket, which leaves the set empty.
C17_SentOnlyGrows ==
    [][\/ tracking.sent_texts \subseteq tracking'.sent_texts
       \/ DisconnectReturns /\ tracking'.sent_texts = {}]_vars

\* a message that triggered the silence reset and emitted its buffer was
\* handled, and the line sent before it is still in the set with its own
C17_Witness ==
    /\ rx.silence
    /\ rx.partials # <<>>
    /\ Len(sessionFinals) = 2
    /\ tracking.sent_texts = Range(sessionFinals)

\* ----------------------------------------------------------- server claims

\* the step in which start_server is entered
StartEnters == start'.call # start.call

\* the step in which start_server returns
StartReturns == start' # start /\ start'.pc = "returned"

C19_StartNeverRaises ==
    [][/\ ~start'.raised
       /\ StartReturns =>
            IF start'.result
            THEN server_process' # NoProcess /\ processes'[server_process'] # "exited"
            ELSE /\ server_process' # NoProcess => processes'[server_process'] = "exited"
                 /\ start'.failure \in {"not_found", "launch", "exited"}
                 /\ start'.failure \in {"launch", "exited"} => server_process' = NoProcess
                 /\ start'.failure = "exited" => processes'[start'.launched] = "exited"]_vars

\* the process launched was gone at the re-check: False, handle cleared
C19_Witness ==
    /\ start.pc = "returned"
    /\ ~start.result
    /\ start.failure = "exited"
    /\ start.launched # NoProcess
    /\ processes[start.launched] = "exited"
    /\ server_process = NoProcess

\* the step in which stop_server is entered
StopEnters == stop'.call # stop.call

\* the step in which stop_server returns
StopReturns == stop' # stop /\ stop'.pc = "returned"

\* C20: stop_server without a handle returns at once and changes nothing;
\* with a handle it calls terminate() and, unless that raises, waits;
\* kill() is called only once the wait has lasted 5 s with the process
\* still alive, and ends it; however the call ends, no exception leaves
\* it and the handle is cleared as it returns, so that a second call finds
\* no handle.
C20_StopClears ==
    [][/\ ~stop'.raised
       /\ StopReturns => server_process' = NoProcess /\ lock' = "free"
       /\ (StopEnters /\ server_process = NoProcess) =>
            /\ stop'.pc = "returned"
            /\ ~stop'.terminated
            /\ UNCHANGED <<processes, start, lock>>
       /\ (StopEnters /\ server_process # NoProcess /\ stop'.pc = "waiting") =>
            /\ stop'.terminated
            /\ processes'[server_process] # "running"
       /\ (stop'.killed /\ ~stop.killed) =>
            /\ stop.terminated
            /\ now - stop.since >= 5
            /\ processes[server_process] = "terminating"
            /\ processes'[server_process] = "exited"]_vars

\* the process ignored SIGTERM for 5 s and was killed; the handle is
\* cleared
C20_Witness ==
    /\ stop.pc = "returned"
    /\ stop.terminated
    /\ stop.killed
    /\ now - stop.since >= 5
    /\ server_process = NoProcess
    /\ processes[1] = "exited"
    /\ start.result

\* ------------------------------------------------------- supervisor claims

\* the processes launched that have not exited
Engines == {p \in ProcessIds : processes[p] \in {"running", "terminating"}}

\* C21: start_server and stop_server, called directly or by
\* restart_server, are never both between taking and releasing the lock,
\* and every process launched that has not exited is the one in the
\* handle, so that at most one is alive.
C21_OneEngine ==
    /\ ~(start.pc = "settling" /\ stop.pc = "waiting")
    /\ lock = "free" <=> (start.pc # "settling" /\ stop.pc # "waiting")
    /\ Engines \subseteq {server_process}

\* C22: no exception leaves is_server_running, whatever start_server and
\* stop_server do to the handle in other threads while it runs.
C22_ProbeNeverRaises == ~probe.raised

\* ------------------------------------------------- further message claims

\* C28: every message other than ready_to_stop has each of its lines that
\* is not blank and was not sent before delivered as a final event while
\* it is handled, also when its buffer_transcription repeats the one
\* stored.
C28_LinesAlwaysHandled ==
    \A m \in NormalMessages :
        (LineTexts(m) \ tracking.sent_texts)
            \subseteq Range(FinalTexts(HandleMessage(tracking, m, now).events))

\* the messages that send again what the engine sent already: the
\* buffer_transcription of the last message handled, and lines that were
\* all delivered
Resends ==
    {m \in NormalMessages :
        /\ rx.branch \in {"empty", "repeat", "extension", "other"}
        /\ m.buffer = rx.buffer
        /\ LineTexts(m) \subseteq tracking.sent_texts}

\* C29 as stated: a message that sends the unchanged buffer_transcription
\* and lines already delivered again hands no event to the consumer,
\* however late it comes.
C29_Original ==
    \A m \in Resends : HandleMessage(tracking, m, now).events = <<>>

\* C29: a message that sends the unchanged buffer_transcription and lines
\* already delivered again hands no event to the consumer when it comes no
\* more than the silence timeout after the last emission; when it comes
\* later, its trimmed buffer_transcription, unless blank, is delivered once
\* more as a partial event, and no line is.
C29_NoResend ==
    \A m \in Resends :
        HandleMessage(tracking, m, now).events =
            IF SilentSince(tracking, now) /\ Strip(m.buffer) # <<>>
            THEN <<Event(Strip(m.buffer), FALSE)>>
            ELSE <<>>

\* a repeated buffer was handled without an event, and a message with the
\* same buffer and a line already delivered can come again, in time
C29_Witness ==
    /\ rx.branch = "repeat"
    /\ rx.partials = <<>>
    /\ ~SilentSince(tracking, now)
    /\ now > tracking.last_meaningful_time
    /\ \E m \in Resends : m.lines # <<>> /\ LineTexts(m) # {} /\ Strip(m.buffer) # <<>>

\* the tracking state after m is handled now
After(m) == HandleMessage(tracking, m, now).r

\* C30 as stated: after a message whose buffer_transcription is not blank
\* both stored buffers hold the value the message carried, and the two are
\* equal in every state.
C30_Original ==
    /\ tracking.last_buffer_text = tracking.last_buffer_content
    /\ \A m \in NormalMessages :
           Strip(m.buffer) # <<>> =>
               /\ After(m).last_buffer_text = m.buffer
               /\ After(m).last_buffer_content = m.buffer

\* C30: after a message whose buffer_transcription is not blank both
\* stored buffers hold its trimmed value, whichever branch was taken, and
\* the two are equal in every state.
C30_BuffersAgree ==
    /\ tracking.last_buffer_text = tracking.last_buffer_content
    /\ \A m \in NormalMessages :
           Strip(m.buffer) # <<>> =>
               /\ After(m).last_buffer_text = Strip(m.buffer)
               /\ After(m).last_buffer_content = Strip(m.buffer)

\* a buffer with whitespace around it was handled: both fields hold the
\* trimmed value, which is not the value carried
C30_Witness ==
    /\ rx.branch \in {"repeat", "extension", "other"}
    /\ rx.buffer # Strip(rx.buffer)
    /\ tracking.last_buffer_text = Strip(rx.buffer)
    /\ tracking.last_buffer_content = Strip(rx.buffer)

\* ----------------------------------------------------- application claims

\* C25: a call of the consumer with a partial event, whatever the calls
\* before it, does not call insert_text and leaves the remembered inserted
\* text as it was.
C25_PartialsNotInserted ==
    [][(consumer'.call # consumer.call /\ ~consumer'.event.is_final)
          => /\ ~consumer'.inserts
             /\ consumer'.inserted_text = consumer.inserted_text]_vars

\* a partial event with text that was not inserted came after an
\* insertion and nothing was inserted
C25_Witness ==
    /\ ~consumer.event.is_final
    /\ Strip(consumer.event.text) # <<>>
    /\ consumer.inserted_text # <<>>
    /\ consumer.event.text # consumer.inserted_text
    /\ ~consumer.inserts

\* a call of thread t returns in this step
AudioReturns(t) ==
    audio.calls[t].pc # "returned" /\ audio'.calls[t].pc = "returned"

AudioConsistent(a) ==
    a.is_recording <=> (a.stream # NoStream /\ a.audio_callback)

\* C26: start_recording called while a recording runs returns False and
\* opens no stream; a start that failed returns False with is_recording
\* False and no stream held; stop_recording called while nothing records
\* changes nothing; and whenever no call is inside the lock, whatever calls
\* of whatever threads came before, is_recording is True exactly when a
\* stream and a callback are held.
C26_AudioConsistent ==
    [][/\ \A t \in AudioThreads :
            /\ (AudioReturns(t) /\ audio'.calls[t].op = "start" /\ audio.is_recording)
                 => /\ ~audio'.calls[t].result
                    /\ audio'.streams = audio.streams
                    /\ audio'.stream = audio.stream
            /\ (AudioReturns(t) /\ audio'.calls[t].failed)
                 => /\ ~audio'.calls[t].result
                    /\ ~audio'.is_recording
                    /\ audio'.stream = NoStream
            /\ (AudioReturns(t) /\ audio'.calls[t].op = "stop" /\ audio.calls[t].pc # "closing")
                 => /\ ~audio.is_recording
                    /\ [audio' EXCEPT !.calls = audio.calls] = audio
       /\ audio'.lock = 0 => AudioConsistent(audio')]_vars

\* a start was refused because a recording ran, after an earlier start had
\* failed with its stream created, and the recording is still consistent
C26_Witness ==
    /\ audio.lock = 0
    /\ audio.is_recording
    /\ \E t \in AudioThreads :
          /\ audio.calls[t].op = "start"
          /\ audio.calls[t].pc = "returned"
          /\ ~audio.calls[t].result
          /\ ~audio.calls[t].failed
    /\ Cardinality({i \in StreamIds : audio.streams[i] = "open"}) = 2

\* C27: clear_all_hotkeys always returns: a call of it is never left
\* waiting, inside stop_listening, for the lock that the call itself holds
\* and that nothing else releases.
C27_ClearTerminates ==
    \A t \in HotkeyThreads :
        ~(hotkey.calls[t].op = "clear" /\ hotkey.calls[t].pc = "stopping" /\ hotkey.lock = t)

Fns(log) == [i \in 1..Len(log) |-> log[i].fn]

\* toggle_recording has returned from its start branch
StartToggled == app.pc = "idle" /\ app.op = "start"

\* C23: when toggle_recording returns from its start branch, is_recording
\* is True exactly when start_recording was its last call and returned
\* True, and then the server was found running or start_server returned
\* True, and connect_websocket returned True; a failed start_server is the
\* last call made; a failed connect_websocket is followed by stop_server
\* and nothing else; a failed start_recording is followed by
\* disconnect_websocket and stop_server and nothing else; and in each of
\* these cases is_recording is False with the application ready for the
\* next toggle.
C23_StartAllOrNothing ==
    StartToggled =>
        LET log == app.log
            n == Len(log)
            fns == Fns(log)
        IN  /\ app.is_recording <=>
                  (n > 0 /\ log[n] = [fn |-> "start_recording", result |-> TRUE])
            /\ app.is_recording =>
                  /\ fns \in {<<"is_server_running", "connect_websocket", "start_recording">>,
                              <<"is_server_running", "start_server", "connect_websocket",
                                "start_recording">>}
                  /\ \A i \in 2..n : log[i].result
                  /\ log[1].result \/ fns[2] = "start_server"
                  /\ conn.pc = "returned" /\ conn.result
                  /\ audio.is_recording /\ audio.calls[AppThread].result
                  /\ probe.result \/ start.result
            /\ \A i \in 1..n :
                  /\ (log[i].fn = "start_server" /\ ~log[i].result) => i = n
                  /\ (log[i].fn = "connect_websocket" /\ ~log[i].result)
                        => /\ n = i + 1
                           /\ fns[n] = "stop_server"
                           /\ stop.pc = "returned"
                  /\ (log[i].fn = "start_recording" /\ ~log[i].result)
                        => /\ n = i + 2
                           /\ fns[i + 1] = "disconnect_websocket"
                           /\ fns[n] = "stop_server"
                           /\ disc.pc = "returned" /\ stop.pc = "returned"

\* a session started by a toggle that came after a failed one
C23_Witness == StartToggled /\ app.is_recording /\ app.failed

\* C24: stopping a recording session does not stop the server: while the
\* stop branch of toggle_recording runs, stop_server is not entered.
C24_SessionStopKeepsServer ==
    [][(app.op = "stop" /\ app.pc # "idle") => stop'.call = stop.call]_vars

\* ------------------------------------------------- more session claims

FinalsOf(m) == FinalTexts(HandleMessage(tracking, m, now).events)

\* C31: a message that arrives after a pause longer than the silence
\* timeout removes no line from the set of sent lines and delivers no final
\* event for a line sent before the pause; when it carries neither buffer
\* text nor lines, it changes nothing but the stored buffer text, the
\* stored buffer content and the emission time, which it clears.
C31_SilenceKeepsSent ==
    \A m \in NormalMessages :
        SilentSince(tracking, now) =>
            /\ tracking.sent_texts \subseteq After(m).sent_texts
            /\ Range(FinalsOf(m)) \cap tracking.sent_texts = {}
            /\ (Strip(m.buffer) = <<>> /\ LineTexts(m) = {})
                 => After(m) = [tracking EXCEPT !.last_buffer_text = <<>>,
                                                !.last_buffer_content = <<>>,
                                                !.last_meaningful_time = NoTime]

\* the silence timeout has passed since a line was sent and a message
\* sending that line again is handled with nothing delivered
C31_Witness ==
    /\ SilentSince(tracking, now)
    /\ tracking.last_buffer_text # <<>>
    /\ \E m \in NormalMessages :
          /\ LineTexts(m) # {}
          /\ LineTexts(m) \subseteq tracking.sent_texts
          /\ HandleMessage(tracking, m, now).events = <<>>
          /\ After(m).sent_texts = tracking.sent_texts
          /\ After(m).last_buffer_text = <<>>

\* the trimmed texts of lines, in order, without the blank ones, those in
\* seen and those that come again
RECURSIVE NewLines(_, _)
NewLines(seen, lines) ==
    IF lines = <<>> THEN <<>>
    ELSE LET text == Strip(Head(lines).text)
         IN  IF text = <<>> \/ text \in seen
             THEN NewLines(seen, Tail(lines))
             ELSE <<text>> \o NewLines(seen \cup {text}, Tail(lines))

\* handling m now ends at the repeat test, before the lines
EndsAtRepeat(m) ==
    /\ Strip(m.buffer) # <<>>
    /\ Strip(m.buffer) = IF SilentSince(tracking, now) THEN <<>>
                         ELSE tracking.last_buffer_content

\* C32: the events a message hands to the consumer are at most one partial
\* event followed by final events only; the final events are the trimmed
\* texts of the entries of lines that are neither blank nor sent before, in
\* the order of lines (none at all when the handling ends at the repeat
\* test); blank entries are not recorded as sent. The thread of a
\* transport handles one message after the other.
C32_EventOrder ==
    \A m \in NormalMessages :
        LET out == HandleMessage(tracking, m, now)
            events == out.events
            finals == FinalTexts(events)
        IN  /\ Len(Partials(events)) <= 1
            /\ \A i, j \in 1..Len(events) :
                  (i < j /\ events[i].is_final) => events[j].is_final
            /\ finals =
                  IF EndsAtRepeat(m) THEN <<>> ELSE NewLines(tracking.sent_texts, m.lines)
            /\ out.r.sent_texts = tracking.sent_texts \cup Range(finals)
            /\ <<>> \notin out.r.sent_texts

\* after an earlier line, a message delivers a partial and then a final
\* event, and another one a final event for the second of its two lines,
\* the first being blank
C32_Witness ==
    /\ tracking.sent_texts # {}
    /\ \E m \in NormalMessages :
          LET events == HandleMessage(tracking, m, now).events
          IN  Len(events) = 2 /\ ~events[1].is_final /\ events[2].is_final
    /\ \E m \in NormalMessages :
          /\ Len(m.lines) = 2
          /\ Strip(m.lines[1].text) = <<>>
          /\ FinalsOf(m) = <<Strip(m.lines[2].text)>>

\* ------------------------------------------------ more connection claims

\* the transports that are connecting or open
Live == {t \in TransportIds : transports[t] \in {"connecting", "open"}}

\* C33: the service owns a single streaming connection: at any time at
\* most one of the transports it created is connecting or open, so that no
\* attempt or call leaves an earlier transport running next to a new one.
C33_SingleConnection == Cardinality(Live) <= 1

\* C34: whenever connect_websocket returns True, with no
\* disconnect_websocket entered while it ran, the stored handle names a
\* transport that is open, the one whose open event made the service
\* Connected, not a transport of an earlier attempt or session and not a
\* transport that has not opened.
C34_HandleIsOpened ==
    [][(ConnectReturns /\ conn'.result /\ ~conn'.interrupted)
          => /\ websocket_client' # NoClient
             /\ transports'[websocket_client'] = "open"]_vars

\* transport t, which the handle does not name, has its open, error or
\* close event handled in this step
StaleEvent(t) ==
    /\ t # websocket_client
    /\ transports'[t] # transports[t]
    /\ \/ transports[t] = "connecting" /\ transports'[t] = "open"
       \/ transports'[t] \in {"aborting", "dead", "closing", "closed"}

\* C35: an event of a transport that is not the current handle, because a
\* retry or a later connect replaced it or disconnect_websocket dropped it,
\* changes neither is_connected nor the tracking state: a late close or
\* error does not turn the open connection Disconnected and a late open
\* does not make a disconnected service Connected.
C35_StaleEventsIgnored ==
    [][\A t \in TransportIds :
          StaleEvent(t) => (is_connected' = is_connected /\ tracking' = tracking)]_vars

\* --------------------------------------------------------- more send claims

\* send_audio_chunk writes its frame in this step, on the transport that
\* the handle names
AudioWritten == send.pc = "checked" /\ send'.wrote

\* C36: once disconnect_websocket has written the zero-length end-of-stream
\* frame on a connection, send_audio_chunk writes no audio frame on that
\* connection, not even when it runs in the audio thread during the 0.1 s
\* that disconnect_websocket sleeps before closing.
C36_NoAudioAfterEndOfStream ==
    [][AudioWritten => websocket_client # disc.stopped]_vars

\* ------------------------------------------------- more partial-text claims

\* C37: a message other than ready_to_stop whose trimmed
\* buffer_transcription is not empty and differs from the stored last
\* buffer content is answered with exactly one partial event and sets the
\* time of the last emission to the current time; a strict extension of the
\* stored buffer is among these, its suffix never being blank.
C37_ChangedBufferEmits ==
    \A m \in NormalMessages :
        LET buffer_text == Strip(m.buffer)
            out == HandleMessage(tracking, m, now)
        IN  (buffer_text # <<>> /\ buffer_text # tracking.last_buffer_content)
                => /\ Len(Partials(out.events)) = 1
                   /\ out.r.last_meaningful_time = now
                   /\ (/\ ~SilentSince(tracking, now)
                       /\ StartsWith(buffer_text, tracking.last_buffer_text))
                        => Strip(SliceFrom(buffer_text, Len(tracking.last_buffer_text)))
                             # <<>>

\* a strict extension of the stored buffer arrives within the timeout and
\* its suffix is the one partial event; a buffer that does not start with
\* the stored one arrives and is emitted whole
C37_Witness ==
    /\ tracking.last_buffer_content # <<>>
    /\ ~SilentSince(tracking, now)
    /\ tracking.last_meaningful_time # now
    /\ \E m \in NormalMessages :
           /\ StartsWith(Strip(m.buffer), tracking.last_buffer_text)
           /\ Len(Strip(m.buffer)) > Len(tracking.last_buffer_text)
           /\ PartialsOf(m) =
                <<Event(SliceFrom(Strip(m.buffer), Len(tracking.last_buffer_text)), FALSE)>>
           /\ After(m).last_meaningful_time = now
    /\ \E m \in NormalMessages :
           /\ Strip(m.buffer) # <<>>
           /\ ~StartsWith(Strip(m.buffer), tracking.last_buffer_text)
           /\ PartialsOf(m) = <<Event(Strip(m.buffer), FALSE)>>

\* what the consumer holds after message m
ShownAfter(m) == Shown(rx.shown, m, HandleMessage(tracking, m, now).events)

\* C38 as stated: in every state the partial texts delivered since the most
\* recent event that carried the whole buffer (that event included),
\* concatenated, are the stored last buffer text.
C38_Original == rx.shown = tracking.last_buffer_text

\* C38: the partial texts delivered since the most recent event that
\* carried the whole buffer, concatenated, are the stored last buffer text
\* whenever that text is not empty; a message separates the two only when
\* the silence reset empties the stored text and the message's trimmed
\* buffer is empty, so that nothing is emitted.
C38_Reconstruction ==
    /\ tracking.last_buffer_text \in {rx.shown, <<>>}
    /\ \A m \in NormalMessages :
           (rx.shown = tracking.last_buffer_text
              /\ ShownAfter(m) # After(m).last_buffer_text)
               => /\ SilentSince(tracking, now)
                  /\ Strip(m.buffer) = <<>>
                  /\ After(m).last_buffer_text = <<>>

\* two partial events made up the stored text, the second one its last
\* character; the timeout has passed since, and a message with a blank
\* buffer empties the stored text while the consumer keeps what it holds
C38_Witness ==
    /\ rx.branch = "extension"
    /\ rx.shown = tracking.last_buffer_text
    /\ Len(rx.shown) = 2
    /\ rx.partials = <<Event(<<rx.shown[2]>>, FALSE)>>
    /\ SilentSince(tracking, now)
    /\ \E m \in NormalMessages :
           /\ Strip(m.buffer) = <<>>
           /\ After(m).last_buffer_text = <<>>
           /\ ShownAfter(m) = rx.shown

\* ------------------------------------------------------- insertion claims

\* the consumer is handed a final event with text that is not blank
FinalHandled ==
    /\ consumer'.call # consumer.call
    /\ consumer'.event.is_final
    /\ Strip(consumer'.event.text) # <<>>

\* toggle_recording finishes its stop branch
SessionStopped == app.op = "stop" /\ app.pc # "idle" /\ app'.pc = "idle"

Extends(text, inserted) == StartsWith(text, inserted) /\ Len(text) > Len(inserted)

\* the remembered text changes only with an insertion that succeeded
RemembersInserted ==
    consumer'.inserted_text =
        IF consumer'.done THEN consumer'.event.text ELSE consumer.inserted_text

StartConnected(h) == h.op = "start" /\ h.pc = "start_recording"

\* no toggle_recording is running
NoToggleRunning == app.pc = "idle" /\ app.hk.pc = "idle"

\* C40: toggle_recording called from the hotkey listener thread and from
\* the menu thread at once does not start two overlapping sessions: no
\* connect_websocket succeeds for a toggle while a session is recording,
\* and whenever no toggle is running is_recording is True exactly when the
\* stream is connected and the audio capture records.
C40_NoOverlappingSessions ==
    /\ (StartConnected(app) \/ StartConnected(app.hk)) => ~app.is_recording
    /\ NoToggleRunning
         => (app.is_recording
               <=> (is_connected /\ websocket_client # NoClient /\ audio.is_recording))

====
